---- MODULE Spec2Model ----
(***************************************************************************)
(* A model of mustache-codegen: the template parser (parse, cutTag,        *)
(* splitSetDelimiterTag, elementEnd), the partial resolver and the Go      *)
(* generator (compileGo, compileTagGo), and the runtime support package    *)
(* (Lookup, IsFalsyOrEmptyList, ForEach, ToString).                        *)
(*                                                                         *)
(* A Go string is a sequence of one-character strings; indices into it are *)
(* Go's (0-based, half-open slices).                                       *)
(***************************************************************************)
EXTENDS Integers, Sequences, FiniteSets

(***************************************************************************)
(* Strings                                                                 *)
(***************************************************************************)

\* unicode.IsSpace, on the characters of the model's alphabet.
IsSpaceChar(c) == c \in {" ", "\t", "\n", "\r"}

\* The characters lineIndentation keeps: category Zs, or a tab.
IsIndentChar(c) == c \in {" ", "\t"}

Min(S) == CHOOSE x \in S : \A y \in S : x <= y

\* s[lo:hi]
Slice(s, lo, hi) == SubSeq(s, lo + 1, hi)

\* s[lo:]
From(s, lo) == SubSeq(s, lo + 1, Len(s))

HasPrefix(s, p) == Len(p) <= Len(s) /\ SubSeq(s, 1, Len(p)) = p

HasSuffix(s, p) == Len(p) <= Len(s) /\ SubSeq(s, Len(s) - Len(p) + 1, Len(s)) = p

\* strings.Index
Index(s, sub) ==
  LET I == {i \in 0..(Len(s) - Len(sub)) : Slice(s, i, i + Len(sub)) = sub}
  IN IF I = {} THEN -1 ELSE Min(I)

\* strings.IndexByte(s, '\n') and the like
IndexChar(s, c) ==
  LET I == {i \in 0..(Len(s) - 1) : s[i + 1] = c}
  IN IF I = {} THEN -1 ELSE Min(I)

nextIndex(s, start, substr) ==
  LET i == Index(From(s, start), substr)
  IN IF i < 0 THEN i ELSE start + i

\* strings.IndexFunc(s[start:], unicode.IsSpace), offset by start
nextIndexSpace(s, start) ==
  LET I == {i \in start..(Len(s) - 1) : IsSpaceChar(s[i + 1])}
  IN IF I = {} THEN -1 ELSE Min(I)

\* nextIndexFunc(s, start, isNonSpace)
nextIndexNonSpace(s, start) ==
  LET I == {i \in start..(Len(s) - 1) : ~IsSpaceChar(s[i + 1])}
  IN IF I = {} THEN -1 ELSE Min(I)

isSpace(s) == \A i \in 1..Len(s) : IsSpaceChar(s[i])

TrimSpace(s) ==
  LET N == {i \in 1..Len(s) : ~IsSpaceChar(s[i])}
  IN IF N = {} THEN <<>>
     ELSE SubSeq(s, Min(N), CHOOSE x \in N : \A y \in N : y <= x)

\* strings.Count(s, "\n")
CountNL(s) == Cardinality({i \in 1..Len(s) : s[i] = "\n"})

indexNextLine(s) ==
  LET i == IndexChar(s, "\n")
  IN IF i < 0 THEN Len(s) ELSE i + 1

lineIndentation(line) ==
  LET N == {i \in 0..(Len(line) - 1) : ~IsIndentChar(line[i + 1])}
  IN IF N = {} THEN line ELSE Slice(line, 0, Min(N))

(***************************************************************************)
(* The tag model                                                           *)
(***************************************************************************)

defaultStartDelim == <<"{", "{">>
defaultEndDelim == <<"}", "}">>

\* type tag struct { tt; s; indent; body }
Tag(tt, s, indent) == [tt |-> tt, s |-> s, indent |-> indent, body |-> <<>>]

\* The zero tag: tt is literal (iota 0), everything else empty.
ZeroTag == Tag("literal", <<>>, <<>>)

\* The characters cutTag takes as a sigil: `#^!<>$/&`
Specials == {"#", "^", "!", "<", ">", "$", "/", "&"}

(***************************************************************************)
(* cutTag                                                                  *)
(***************************************************************************)

\* What cutTag returns: [err, b, key, tagEnd]; err is "" on success and b is
\* "" for Go's zero byte.
CutResult(err, b, key, tagEnd) == [err |-> err, b |-> b, key |-> key, tagEnd |-> tagEnd]

\* The indices from which the scan of cutTag can find endDelim whole.
EndDelimHits(s, from, endDelim) ==
  {i \in from..(Len(s) - Len(endDelim)) : Slice(s, i, i + Len(endDelim)) = endDelim}

\* The indices the scan of cutTag visits that hold a line break.
ScanNewlines(s, from, endDelim) ==
  {i \in from..(Len(s) - Len(endDelim)) : s[i + 1] = "\n"}

\* cutTag once the end of the tag is found: the sigil and the key.
cutTagInner(s, startDelim, endDelim, tagInnerStart, tagInnerEnd, tagEnd) ==
  LET isDefault == startDelim = defaultStartDelim /\ endDelim = defaultEndDelim
      inner == Slice(s, tagInnerStart, tagInnerEnd)
  IN IF isDefault /\ s[tagInnerStart + 1] = "{" /\ HasPrefix(From(s, tagEnd), <<"}">>)
     THEN CutResult("", "&", TrimSpace(Slice(s, tagInnerStart + 1, tagInnerEnd)), tagEnd + 1)
     ELSE IF HasPrefix(inner, <<"=">>)
     THEN IF ~HasSuffix(From(inner, 1), <<"=">>)
          THEN CutResult("does not end with =", "=", From(inner, 1), tagEnd)
          ELSE CutResult("", "=", TrimSpace(Slice(inner, 1, Len(inner) - 1)), tagEnd)
     ELSE IF Len(inner) > 1 /\ inner[1] \in Specials
     THEN CutResult("", inner[1], TrimSpace(From(inner, 1)), tagEnd)
     ELSE CutResult("", "", TrimSpace(inner), tagEnd)

cutTagScanAnyLines(s, startDelim, endDelim, tagInnerStart, isComment, M, N) ==
  IF M = {}
  THEN CutResult(IF isComment THEN "unclosed comment" ELSE "unclosed tag", "", <<>>, -1)
  ELSE cutTagInner(s, startDelim, endDelim, tagInnerStart, Min(M), Min(M) + Len(endDelim))

\* The scan of cutTag for the end of the tag, from tagInnerStart.
cutTagScan(s, startDelim, endDelim, tagInnerStart, isComment, M, N) ==
  IF ~isComment /\ N # {} /\ (M = {} \/ Min(N) <= Min(M))
  THEN CutResult("unclosed tag", "", <<>>, -1)   \* newlines only permitted in comments
  ELSE IF M = {}
  THEN CutResult(IF isComment THEN "unclosed comment" ELSE "unclosed tag", "", <<>>, -1)
  ELSE cutTagInner(s, startDelim, endDelim, tagInnerStart, Min(M), Min(M) + Len(endDelim))

\* cutTag parses the tag that starts at the index tagStart in s.
cutTag(s, tagStart, startDelim, endDelim) ==
  cutTagScan(s, startDelim, endDelim, tagStart + Len(startDelim),
             HasPrefix(From(s, tagStart + Len(startDelim)), <<"!">>),
             EndDelimHits(s, tagStart + Len(startDelim), endDelim),
             ScanNewlines(s, tagStart + Len(startDelim), endDelim))

splitSetDelimiterTagRest(s) ==
  LET i == nextIndexSpace(s, 0)
      fail(msg) == [err |-> msg, startDelim |-> <<>>, endDelim |-> <<>>]
  IN IF i = 0 THEN fail("set delimiter tag empty")
     ELSE IF i < 0 THEN fail("set delimiter tag missing an end delimiter")
     ELSE [err |-> "", startDelim |-> Slice(s, 0, i), endDelim |-> From(s, i)]

\* splitSetDelimiterTag splits the inner content of a set delimiter tag
\* into the start and end delimiters.
splitSetDelimiterTag(s) ==
  LET i == nextIndexSpace(s, 0)
      fail(msg) == [err |-> msg, startDelim |-> <<>>, endDelim |-> <<>>]
  IN IF i = 0 THEN fail("set delimiter tag empty")
     ELSE IF i < 0 THEN fail("set delimiter tag missing an end delimiter")
     ELSE LET j == nextIndexNonSpace(s, i)
          IN IF j < 0 THEN fail("set delimiter tag missing an end delimiter")
             ELSE IF nextIndexSpace(s, j) >= 0
             THEN fail("set delimiter tag has more than two delimiters")
             ELSE [err |-> "", startDelim |-> Slice(s, 0, i), endDelim |-> From(s, j)]

\* The loop of elementEnd: level open elements named name, scanning from i.
RECURSIVE elementEndLoop(_, _, _, _, _, _)

\* The loop's body once the next tag is cut.
elementEndTag(name, s, level, startDelim, endDelim, c, d) ==
  IF c.err # "" THEN [err |-> "unclosed", i |-> -1, at |-> -1, cut |-> c.err]
  ELSE IF c.b \in {"#", "^", "$", "<"}
  THEN elementEndLoop(name, s, c.tagEnd, IF c.key = name THEN level + 1 ELSE level,
                      startDelim, endDelim)
  ELSE IF c.b = "/"
  THEN elementEndLoop(name, s, c.tagEnd, IF c.key = name THEN level - 1 ELSE level,
                      startDelim, endDelim)
  ELSE IF c.b = "="
  THEN IF d.err # "" THEN [err |-> d.err, i |-> 0, at |-> c.tagEnd, cut |-> ""]
       ELSE elementEndLoop(name, s, c.tagEnd, level, d.startDelim, d.endDelim)
  ELSE elementEndLoop(name, s, c.tagEnd, level, startDelim, endDelim)

elementEndAt(name, s, level, startDelim, endDelim, c) ==
  elementEndTag(name, s, level, startDelim, endDelim, c,
                IF c.err = "" /\ c.b = "=" THEN splitSetDelimiterTag(c.key)
                ELSE [err |-> "", startDelim |-> startDelim, endDelim |-> endDelim])

elementEndLoop(name, s, i, level, startDelim, endDelim) ==
  IF level <= 0 THEN [err |-> "", i |-> i, at |-> -1, cut |-> ""]
  ELSE IF nextIndex(s, i, startDelim) < 0 THEN [err |-> "unclosed", i |-> -1, at |-> -1, cut |-> ""]
  ELSE elementEndAt(name, s, level, startDelim, endDelim,
                    cutTag(s, nextIndex(s, i, startDelim), startDelim, endDelim))

\* elementEnd returns the end of the matching end tag; at is the end of the set
\* delimiter tag it returns an error for and cut the error cutTag returned to
\* it (history).
elementEnd(name, s, tagEnd, startDelim, endDelim) ==
  elementEndLoop(name, s, tagEnd, 1, startDelim, endDelim)

(***************************************************************************)
(* parse                                                                   *)
(*                                                                         *)
(* The state of one call of parse is a record p of its local variables:    *)
(*   s, result, stack, startDelim, endDelim, lineno  as in the source      *)
(*   eol, tagStart, prevEnd   the locals of the line loop's body           *)
(*   pc    where the call stands: "line" (head of the line loop), "tag"    *)
(*         (head of the tag loop), "eol" (after the tag loop), "done",     *)
(*         "error" (an error was returned), "panic" (an index out of range)*)
(*   err   the error returned                                              *)
(*   src   the argument, lines   a record of what each line added (history)*)
(* A scope's slice pointer is the body of the last tag along the chain of  *)
(* last children of result, as deep as the scope is in the stack.          *)
(***************************************************************************)

NoErr == [line |-> 0, msg |-> "", key |-> <<>>, want |-> <<>>, opened |-> 0]

Scope(start, lineno) == [start |-> start, lineno |-> lineno, standalone |-> FALSE]

InitParser(src) ==
  [src |-> src, s |-> src, result |-> <<>>, stack |-> <<Scope(ZeroTag, 0)>>,
   startDelim |-> defaultStartDelim, endDelim |-> defaultEndDelim,
   lineno |-> 1, eol |-> 0, tagStart |-> -1, prevEnd |-> 0,
   pc |-> "line", err |-> NoErr, lines |-> <<>>]

\* *curr = append(*curr, t), curr the slice of the scope at the given depth
RECURSIVE AppendAt(_, _, _)
AppendAt(tags, depth, t) ==
  IF depth = 0 THEN Append(tags, t)
  ELSE [tags EXCEPT ![Len(tags)].body = AppendAt(@, depth - 1, t)]

\* Appends t to the slice of the innermost scope, and notes it in the history.
AppendTag(p, t) ==
  [p EXCEPT !.result = AppendAt(@, Len(p.stack) - 1, t),
            !.lines[Len(p.lines)].added = Append(@, t)]

appendLiteral(p, s) == IF s # <<>> THEN AppendTag(p, Tag("literal", s, <<>>)) ELSE p

newScope(p, newTag) ==
  [AppendTag(p, newTag) EXCEPT !.stack = Append(@, Scope(newTag, p.lineno))]

RECURSIVE dedentFromAnyScope(_, _, _)
dedentFromAnyScope(stack, i, s) ==
  IF i > Len(stack) THEN s
  ELSE IF HasPrefix(s, stack[i].start.indent)
       THEN dedentFromAnyScope(stack, i + 1, From(s, Len(stack[i].start.indent)))
       ELSE s

\* The loop of dedent, from the scope at index i of the stack.
RECURSIVE dedentFrom(_, _, _)
dedentFrom(stack, i, s) ==
  IF i > Len(stack) THEN s
  ELSE IF stack[i].start.tt # "block" THEN dedentFrom(stack, i + 1, s)
  ELSE IF HasPrefix(s, stack[i].start.indent)
       THEN dedentFrom(stack, i + 1, From(s, Len(stack[i].start.indent)))
       ELSE s

dedent(stack, s) == dedentFrom(stack, 1, s)

Fail(p, line, msg) ==
  [p EXCEPT !.pc = "error", !.err = [NoErr EXCEPT !.line = line, !.msg = msg]]

Panic(p) == [p EXCEPT !.pc = "panic"]

InRange(s, lo, hi) == 0 <= lo /\ lo <= hi /\ hi <= Len(s)

\* The head of the line loop's body, s dedented already.
LineScan(p, s, eol, tagStart) ==
  LET p1 == [p EXCEPT !.s = s, !.eol = eol, !.tagStart = tagStart, !.prevEnd = 0,
                      !.lines = Append(@, [startDelim |-> p.startDelim,
                                           endDelim |-> p.endDelim,
                                           cut |-> Slice(p.s, 0, Len(p.s) - Len(s)),
                                           lineno |-> p.lineno, depth |-> Len(p.stack),
                                           text |-> Slice(s, 0, eol), rest |-> s,
                                           tags |-> <<>>, added |-> <<>>]),
                      !.pc = IF tagStart >= 0 THEN "tag" ELSE "eol"]
  IN \* Add indent point if there are no tags.
     IF tagStart < 0 THEN AppendTag(p1, Tag("indentPoint", <<>>, <<>>)) ELSE p1

LineDedented(p, s) ==
  LineScan(p, s, indexNextLine(s), Index(Slice(s, 0, indexNextLine(s)), p.startDelim))

\* The head of the line loop with len(s) > 0: dedent, find the end of the
\* line and its first tag.
LineBegin(p) == LineDedented(p, dedent(p.stack, p.s))

\* After the tag loop: the rest of the line is a literal; on to the next line.
LineEnd(p) ==
  IF ~InRange(p.s, p.prevEnd, p.eol) THEN Panic(p)
  ELSE [appendLiteral(p, Slice(p.s, p.prevEnd, p.eol))
          EXCEPT !.s = From(p.s, p.eol), !.lineno = p.lineno + 1, !.pc = "line"]

\* After the line loop: return an error if there are open tags.
Finish(p) ==
  IF Len(p.stack) - 1 > 0
  THEN LET last == p.stack[Len(p.stack)]
       IN [p EXCEPT !.pc = "error",
                    !.err = [NoErr EXCEPT !.line = last.lineno, !.msg = "unclosed",
                                          !.key = last.start.s]]
  ELSE [p EXCEPT !.pc = "done"]

\* NextTag as it would be if a standalone tag did not skip the rest of its line.
NextTagKeepRest(q, tagEnd, ignoreRestOfLine) ==
  IF ~InRange(q.s, tagEnd, q.eol) THEN Panic(q)
  ELSE [q EXCEPT !.prevEnd = tagEnd,
                 !.tagStart = nextIndex(Slice(q.s, 0, q.eol), tagEnd, q.startDelim),
                 !.pc = IF nextIndex(Slice(q.s, 0, q.eol), tagEnd, q.startDelim) >= 0
                        THEN "tag" ELSE "eol"]

NextTagSkipRest(q, tagEnd, ignoreRestOfLine) ==
  [q EXCEPT !.prevEnd = q.eol, !.pc = "eol"]

\* The end of the tag loop's body: move to the next tag in the line.
NextTag(q, tagEnd, ignoreRestOfLine) ==
  IF ignoreRestOfLine THEN [q EXCEPT !.prevEnd = q.eol, !.pc = "eol"]
  ELSE IF ~InRange(q.s, tagEnd, q.eol) THEN Panic(q)
  ELSE [q EXCEPT !.prevEnd = tagEnd,
                 !.tagStart = nextIndex(Slice(q.s, 0, q.eol), tagEnd, q.startDelim),
                 !.pc = IF nextIndex(Slice(q.s, 0, q.eol), tagEnd, q.startDelim) >= 0
                        THEN "tag" ELSE "eol"]

\* CloseTag as it would be without the comparison of the names.
CloseTagAnyName(p, key, tagEnd, ignoreRestOfLine, last, top) ==
  IF last - 1 = 0
  THEN [p EXCEPT !.pc = "error",
                 !.err = [NoErr EXCEPT !.line = p.lineno, !.msg = "without opening",
                                       !.key = key]]
  ELSE NextTag([p EXCEPT !.stack = SubSeq(@, 1, last - 1)], tagEnd,
               IF top.start.tt = "parent" THEN top.standalone ELSE ignoreRestOfLine)

\* case '/': the closing tag, top the innermost scope.
CloseTag(p, key, tagEnd, ignoreRestOfLine, last, top) ==
  IF last - 1 = 0
  THEN [p EXCEPT !.pc = "error",
                 !.err = [NoErr EXCEPT !.line = p.lineno, !.msg = "without opening",
                                       !.key = key]]
  ELSE IF key # top.start.s
  THEN [p EXCEPT !.pc = "error",
                 !.err = [NoErr EXCEPT !.line = p.lineno, !.msg = "mismatched",
                                       !.key = key, !.want = top.start.s,
                                       !.opened = top.lineno]]
  ELSE NextTag([p EXCEPT !.stack = SubSeq(@, 1, last - 1)], tagEnd,
               IF top.start.tt = "parent" THEN top.standalone ELSE ignoreRestOfLine)

\* case '=': the set delimiter tag, d what splitSetDelimiterTag returns.
SetDelimiterTagKept(p, tagEnd, ignoreRestOfLine, d) ==
  IF d.err # "" THEN Fail(p, p.lineno, d.err)
  ELSE NextTag(p, tagEnd, ignoreRestOfLine)

SetDelimiterTag(p, tagEnd, ignoreRestOfLine, d) ==
  IF d.err # "" THEN Fail(p, p.lineno, d.err)
  ELSE NextTag([p EXCEPT !.startDelim = d.startDelim, !.endDelim = d.endDelim],
               tagEnd, ignoreRestOfLine)

\* case '$': the block tag has opened its scope in q.
BlockTag(q, tagEnd, ignoreRestOfLine) ==
  NextTag(IF ~ignoreRestOfLine THEN AppendTag(q, Tag("indentPoint", <<>>, <<>>)) ELSE q,
          tagEnd, ignoreRestOfLine)

\* case '<': the parent tag has opened its scope in q.
ParentTag(q, tagEnd, isStandalone, ignoreRestOfLine) ==
  NextTag([q EXCEPT !.stack[Len(q.stack)].standalone = isStandalone],
          tagEnd, ignoreRestOfLine)

\* The switch on special. p has the literal text before the tag added already.
TagSwitch(p, special, key, tagEnd, indent, isStandalone, ignoreRestOfLine) ==
  CASE special = "#" ->
         NextTag(newScope(p, Tag("section", key, <<>>)), tagEnd, ignoreRestOfLine)
    [] special = "^" ->
         NextTag(newScope(p, Tag("invertedSection", key, <<>>)), tagEnd, ignoreRestOfLine)
    [] special = "!" -> NextTag(p, tagEnd, ignoreRestOfLine)
    [] special = ">" ->
         NextTag(AppendTag(p, Tag("partial", key, indent)), tagEnd, ignoreRestOfLine)
    [] special = "$" ->
         BlockTag(newScope(p, Tag("block", key, indent)), tagEnd, ignoreRestOfLine)
    [] special = "<" ->
         ParentTag(newScope(p, Tag("parent", key, indent)), tagEnd, isStandalone,
                   ignoreRestOfLine)
    [] special = "/" ->
         CloseTag(p, key, tagEnd, ignoreRestOfLine, Len(p.stack), p.stack[Len(p.stack)])
    [] special = "=" ->
         SetDelimiterTag(p, tagEnd, ignoreRestOfLine, splitSetDelimiterTag(key))
    [] special = "&" ->
         NextTag(AppendTag(p, Tag("rawVariable", key, <<>>)), tagEnd, ignoreRestOfLine)
    [] OTHER ->
         NextTag(AppendTag(p, Tag("variable", key, <<>>)), tagEnd, ignoreRestOfLine)

TagLiteralAlways(p, c, leadingText, indent, isStandalone, ignoreRestOfLine, firstOnLine, readsSecond) ==
  TagSwitch(
    IF isStandalone THEN p
    ELSE appendLiteral(
           IF firstOnLine THEN AppendTag(p, Tag("indentPoint", <<>>, <<>>)) ELSE p,
           leadingText),
    c.b, c.key, c.tagEnd, indent, isStandalone, ignoreRestOfLine)

\* The literal text since the last tag, with its indent point. firstOnLine and
\* readsSecond are the operands, in order, of the condition on the indent point:
\* readsSecond says that stack[len(stack)-2] is read.
TagLiteral(p, c, leadingText, indent, isStandalone, ignoreRestOfLine, firstOnLine, readsSecond) ==
  IF readsSecond /\ Len(p.stack) < 2 THEN Panic(p)
  ELSE TagSwitch(
         IF isStandalone THEN p
         ELSE appendLiteral(
                IF firstOnLine /\ ~(readsSecond /\ p.stack[Len(p.stack) - 1].start.tt = "parent")
                THEN AppendTag(p, Tag("indentPoint", <<>>, <<>>)) ELSE p,
                leadingText),
         c.b, c.key, c.tagEnd, indent, isStandalone, ignoreRestOfLine)

\* TagIndent as it would be if stack[len(stack)-2] were read for every closing
\* tag at the start of a line, whatever the innermost scope is.
TagIndentAnyScope(p, c, top, leadingText, isStandalonePairTag, isStandalone, nextLineIndent, indent) ==
  TagLiteral([p EXCEPT !.lines[Len(p.lines)].tags =
                Append(@, [b |-> c.b, key |-> c.key, tagStart |-> p.tagStart,
                           tagEnd |-> c.tagEnd, standalone |-> isStandalone,
                           pair |-> isStandalonePairTag, indent |-> indent, top |-> top])],
             c, leadingText, indent, isStandalone,
             (isStandalone /\ ~isStandalonePairTag) \/ nextLineIndent,
             ~isStandalone /\ p.prevEnd = 0,
             ~isStandalone /\ p.prevEnd = 0 /\ p.tagStart = 0 /\ c.b = "/")

\* The indentation of the tag. nextLineIndent: the tag takes the indentation of
\* the following line and ignores the newline before its content.
TagIndent(p, c, top, leadingText, isStandalonePairTag, isStandalone, nextLineIndent, indent) ==
  TagLiteral([p EXCEPT !.lines[Len(p.lines)].tags =
                Append(@, [b |-> c.b, key |-> c.key, tagStart |-> p.tagStart,
                           tagEnd |-> c.tagEnd, standalone |-> isStandalone,
                           pair |-> isStandalonePairTag, indent |-> indent, top |-> top])],
             c, leadingText, indent, isStandalone,
             (isStandalone /\ ~isStandalonePairTag) \/ nextLineIndent,
             ~isStandalone /\ p.prevEnd = 0,
             ~isStandalone /\ p.prevEnd = 0 /\ p.tagStart = 0 /\ c.b = "/" /\ top = "block")

\* Whether the tag is standalone: nothing except whitespace before or after it
\* on its line (trailingText is the text after the matching end tag for a
\* standalone pair tag).
TagStandaloneOwnLine(p, c, top, leadingText, isParameter, isArgument, isStandalonePairTag, isStandalone) ==
  TagIndent(p, c, top, leadingText, isStandalonePairTag, isStandalone, FALSE,
            IF isStandalone THEN leadingText ELSE <<>>)

TagStandalone(p, c, top, leadingText, isParameter, isArgument, isStandalonePairTag, isStandalone) ==
  LET nextLineIndent == (isArgument \/ (isParameter /\ isStandalone))
                        /\ isSpace(Slice(p.s, c.tagEnd, p.eol))
  IN TagIndent(p, c, top, leadingText, isStandalonePairTag, isStandalone, nextLineIndent,
               IF nextLineIndent THEN lineIndentation(dedent(p.stack, From(p.s, p.eol)))
               ELSE IF isStandalone THEN leadingText
               ELSE <<>>)

\* TagTrailing as it would be if a tag of any sigil, or of none, could be
\* standalone.
TagTrailingAnySigil(p, c, top, leadingText, isParameter, isArgument, isStandalonePairTag, e) ==
  IF e.err = "unclosed"
  THEN [p EXCEPT !.pc = "error",
                 !.err = [NoErr EXCEPT !.line = p.lineno, !.msg = "unclosed", !.key = c.key]]
  ELSE IF e.err # "" THEN Fail(p, p.lineno, e.err)
  ELSE TagStandalone(p, c, top, leadingText, isParameter, isArgument, isStandalonePairTag,
         p.prevEnd = 0 /\ isSpace(leadingText)
         /\ isSpace(IF isStandalonePairTag
                    THEN Slice(p.s, e.i, e.i + indexNextLine(From(p.s, e.i)))
                    ELSE Slice(p.s, c.tagEnd, p.eol)))

\* e is what elementEnd returns for a standalone pair tag.
TagTrailing(p, c, top, leadingText, isParameter, isArgument, isStandalonePairTag, e) ==
  IF e.err = "unclosed"
  THEN [p EXCEPT !.pc = "error",
                 !.err = [NoErr EXCEPT !.line = p.lineno, !.msg = "unclosed", !.key = c.key]]
  ELSE IF e.err # "" THEN Fail(p, p.lineno, e.err)
  ELSE TagStandalone(p, c, top, leadingText, isParameter, isArgument, isStandalonePairTag,
         p.prevEnd = 0 /\ c.b # "" /\ c.b # "&" /\ isSpace(leadingText)
         /\ isSpace(IF isStandalonePairTag
                    THEN Slice(p.s, e.i, e.i + indexNextLine(From(p.s, e.i)))
                    ELSE Slice(p.s, c.tagEnd, p.eol)))

\* The kind of the tag, top the tag type of the innermost scope.
TagClass(p, c, top, isParameter, isArgument, isStandalonePairTag) ==
  TagTrailing(p, c, top, Slice(p.s, p.prevEnd, p.tagStart), isParameter, isArgument,
              isStandalonePairTag,
              IF isStandalonePairTag
              THEN elementEnd(c.key, p.s, c.tagEnd, p.startDelim, p.endDelim)
              ELSE [err |-> "", i |-> c.tagEnd, at |-> -1, cut |-> ""])

\* The tag is cut; p has lineno and eol moved past a tag of several lines.
TagChecked(p, c) ==
  IF c.b \notin {"!", "="} /\ c.key = <<>> THEN Fail(p, p.lineno, "empty tag")
  ELSE IF c.b \notin {"!", "="} /\ nextIndexSpace(c.key, 0) >= 0
  THEN Fail(p, p.lineno, "extra words")
  ELSE IF ~InRange(p.s, p.prevEnd, p.tagStart) \/ ~InRange(p.s, c.tagEnd, p.eol) THEN Panic(p)
  ELSE TagClass(p, c, p.stack[Len(p.stack)].start.tt,
                c.b = "$" /\ p.stack[Len(p.stack)].start.tt # "parent",
                c.b = "$" /\ p.stack[Len(p.stack)].start.tt = "parent",
                c.b = "<" \/ (c.b = "$" /\ p.stack[Len(p.stack)].start.tt # "parent"))

\* n line breaks inside the tag (a comment): update the line position variables.
TagLines(p, c, n) ==
  TagChecked([p EXCEPT !.lineno = p.lineno + n,
                       !.eol = IF n > 0 THEN c.tagEnd + indexNextLine(From(p.s, c.tagEnd))
                               ELSE p.eol,
                       !.lines[Len(p.lines)].text =
                          IF n > 0
                          THEN Slice(p.s, 0, c.tagEnd + indexNextLine(From(p.s, c.tagEnd)))
                          ELSE @],
             c)

\* c is what cutTag returns for the tag at tagStart.
TagCut(p, c) ==
  IF c.err # "" THEN Fail(p, p.lineno, c.err)
  ELSE TagLines(p, c, CountNL(Slice(p.s, p.tagStart, c.tagEnd)))

\* One iteration of the tag loop: the tag at tagStart.
TagStep(p) == TagCut(p, cutTag(p.s, p.tagStart, p.startDelim, p.endDelim))

\* One step of parse.
ParseStep(p) ==
  CASE p.pc = "line" -> IF Len(p.s) > 0 THEN LineBegin(p) ELSE Finish(p)
    [] p.pc = "tag" -> TagStep(p)
    [] p.pc = "eol" -> LineEnd(p)
    [] OTHER -> p

RECURSIVE ParseRun(_)
ParseRun(p) == IF p.pc \in {"done", "error", "panic"} THEN p ELSE ParseRun(ParseStep(p))

\* parse(s): the final state of the call
parse(src) == ParseRun(InitParser(src))

(***************************************************************************)
(* The runtime support package (go/mustache)                               *)
(*                                                                         *)
(* A reflect.Value is a record: kind is "invalid" for the zero Value,      *)
(* "nil" for a nil pointer or interface, "ptr" for a pointer to items[1],  *)
(* "bool" (b), "string" (s), "int" (n), "float" (n, or NaN when b),        *)
(* "list" for a slice or array of items, "map" for a map with string keys  *)
(* and "struct", both with fields, a list of [k, v], and "intmap" for a    *)
(* map whose keys are not strings. A non-nil interface is the value in it. *)
(***************************************************************************)

Value(kind) == [kind |-> kind, b |-> FALSE, s |-> <<>>, n |-> 0, items |-> <<>>, fields |-> <<>>]

\* reflect.Value{}
Invalid == Value("invalid")

NilValue == Value("nil")

BoolValue(b) == [Value("bool") EXCEPT !.b = b]

StringValue(s) == [Value("string") EXCEPT !.s = s]

IntValue(n) == [Value("int") EXCEPT !.n = n]

FloatValue(n) == [Value("float") EXCEPT !.n = n]

NaNValue == [Value("float") EXCEPT !.b = TRUE]

ListValue(items) == [Value("list") EXCEPT !.items = items]

MapValue(fields) == [Value("map") EXCEPT !.fields = fields]

StructValue(fields) == [Value("struct") EXCEPT !.fields = fields]

IntMapValue(fields) == [Value("intmap") EXCEPT !.fields = fields]

PtrValue(v) == [Value("ptr") EXCEPT !.items = <<v>>]

\* What a function does when it indexes out of range.
PanicValue == Value("panic")

IsValid(v) == v.kind # "invalid"

RECURSIVE resolve(_)
resolve(v) == IF v.kind # "ptr" THEN v ELSE resolve(v.items[1])

\* v.MapIndex(k), v.FieldByName(k): the zero Value when there is none
FieldOf(v, k) ==
  LET I == {i \in 1..Len(v.fields) : v.fields[i].k = k}
  IN IF I = {} THEN Invalid ELSE v.fields[Min(I)].v

property(v, k) ==
  CASE resolve(v).kind = "struct" -> FieldOf(resolve(v), k)
    [] resolve(v).kind = "map" -> FieldOf(resolve(v), k)
    [] OTHER -> Invalid

\* strings.Split(path, ".")
RECURSIVE Split(_)
Split(path) ==
  IF IndexChar(path, ".") < 0 THEN <<path>>
  ELSE <<Slice(path, 0, IndexChar(path, "."))>> \o Split(From(path, IndexChar(path, ".") + 1))

\* The first loop of Lookup, at the frame of index i - 1.
RECURSIVE LookupFrame(_, _, _)
LookupFrame(contextStack, i, part) ==
  IF i = 0 THEN Invalid
  ELSE IF IsValid(property(contextStack[i], part)) THEN property(contextStack[i], part)
  ELSE LookupFrame(contextStack, i - 1, part)

\* The second loop of Lookup.
RECURSIVE LookupParts(_, _)
LookupParts(v, parts) ==
  IF parts = <<>> THEN v ELSE LookupParts(property(v, Head(parts)), Tail(parts))

\* LookupFrame as it would be if the frames were searched from the outermost.
RECURSIVE LookupFrameOutermost(_, _, _)
LookupFrameOutermost(contextStack, i, part) ==
  IF i > Len(contextStack) THEN Invalid
  ELSE IF IsValid(property(contextStack[i], part)) THEN property(contextStack[i], part)
  ELSE LookupFrameOutermost(contextStack, i + 1, part)

\* Lookup as it would be if it searched the frames from the outermost inwards.
LookupOutermostFirst(contextStack, path) ==
  IF path = <<".">>
  THEN IF contextStack = <<>> THEN PanicValue ELSE contextStack[Len(contextStack)]
  ELSE LookupParts(LookupFrameOutermost(contextStack, 1, Head(Split(path))), Tail(Split(path)))

\* Lookup finds the last value for the given key (possibly containing dots)
\* in the contextStack.
Lookup(contextStack, path) ==
  IF path = <<".">>
  THEN IF contextStack = <<>> THEN PanicValue ELSE contextStack[Len(contextStack)]
  ELSE LookupParts(LookupFrame(contextStack, Len(contextStack), Head(Split(path))),
                   Tail(Split(path)))

Digits == <<"0", "1", "2", "3", "4", "5", "6", "7", "8", "9">>

\* strconv.Itoa
RECURSIVE Itoa(_)
Itoa(n) ==
  IF n < 0 THEN <<"-">> \o Itoa(0 - n)
  ELSE IF n < 10 THEN <<Digits[n + 1]>>
  ELSE Itoa(n \div 10) \o <<Digits[(n % 10) + 1]>>

\* The order of the characters map keys are made of, for fmt's sorted maps.
KeyAlphabet == <<"a", "b", "c", "d", "i", "x">>

CharRank(c) ==
  IF \E i \in 1..Len(KeyAlphabet) : KeyAlphabet[i] = c
  THEN CHOOSE i \in 1..Len(KeyAlphabet) : KeyAlphabet[i] = c ELSE 0

RECURSIVE KeyLess(_, _)
KeyLess(k1, k2) ==
  IF k1 = <<>> THEN k2 # <<>>
  ELSE IF k2 = <<>> THEN FALSE
  ELSE IF Head(k1) # Head(k2) THEN CharRank(Head(k1)) < CharRank(Head(k2))
  ELSE KeyLess(Tail(k1), Tail(k2))

\* The fields in the order of their keys.
RECURSIVE SortFields(_)
SortFields(fields) ==
  IF fields = <<>> THEN <<>>
  ELSE LET m == CHOOSE i \in 1..Len(fields) :
                  \A j \in 1..Len(fields) : j = i \/ ~KeyLess(fields[j].k, fields[i].k)
       IN <<fields[m]>> \o SortFields(SubSeq(fields, 1, m - 1) \o SubSeq(fields, m + 1, Len(fields)))

\* fmt.Sprint of the value, and of the values of a list or a map in turn.
RECURSIVE Sprint(_)
RECURSIVE SprintItems(_)
RECURSIVE SprintFields(_, _)
SprintItems(items) ==
  IF items = <<>> THEN <<>>
  ELSE IF Len(items) = 1 THEN Sprint(items[1])
  ELSE Sprint(items[1]) \o <<" ">> \o SprintItems(Tail(items))

SprintFields(fields, sep) ==
  IF fields = <<>> THEN <<>>
  ELSE IF Len(fields) = 1 THEN fields[1].k \o sep \o Sprint(fields[1].v)
  ELSE fields[1].k \o sep \o Sprint(fields[1].v) \o <<" ">> \o SprintFields(Tail(fields), sep)

Sprint(v) ==
  CASE v.kind = "string" -> v.s
    [] v.kind = "bool" -> IF v.b THEN <<"t", "r", "u", "e">> ELSE <<"f", "a", "l", "s", "e">>
    [] v.kind = "int" -> Itoa(v.n)
    [] v.kind = "float" -> IF v.b THEN <<"N", "a", "N">> ELSE Itoa(v.n)
    [] v.kind = "list" -> <<"[">> \o SprintItems(v.items) \o <<"]">>
    [] v.kind \in {"map", "intmap"} ->
         <<"m", "a", "p", "[">> \o SprintFields(SortFields(v.fields), <<":">>) \o <<"]">>
    [] v.kind = "struct" -> <<"{">> \o SprintItems([i \in 1..Len(v.fields) |-> v.fields[i].v]) \o <<"}">>
    [] v.kind = "nil" -> <<"<", "n", "i", "l", ">">>
    [] v.kind = "invalid" -> <<"<", "i", "n", "v", "a", "l", "i", "d", " ", "V", "a", "l", "u", "e", ">">>
    [] OTHER -> <<>>

\* ToString converts a reflect.Value to a string representation.
ToString(v) ==
  IF ~IsValid(resolve(v)) THEN <<>>
  ELSE IF resolve(v).kind = "nil" THEN <<>>
  ELSE Sprint(resolve(v))

\* IsFalsyOrEmptyList as it would be without its cases for the numbers.
IsFalsyOrEmptyListNoNumbers(v) ==
  IF ~IsValid(resolve(v)) THEN TRUE
  ELSE CASE resolve(v).kind = "bool" -> ~resolve(v).b
         [] resolve(v).kind = "string" -> resolve(v).s = <<>>
         [] resolve(v).kind = "list" -> Len(resolve(v).items) = 0
         [] resolve(v).kind = "nil" -> TRUE
         [] OTHER -> FALSE

\* IsFalsyOrEmptyList reports whether v is invalid, nil, false, an empty
\* string, or an empty list.
IsFalsyOrEmptyList(v) ==
  IF ~IsValid(resolve(v)) THEN TRUE
  ELSE CASE resolve(v).kind = "bool" -> ~resolve(v).b
         [] resolve(v).kind = "string" -> resolve(v).s = <<>>
         [] resolve(v).kind = "float" -> resolve(v).n = 0 \/ resolve(v).b
         [] resolve(v).kind = "int" -> resolve(v).n = 0
         [] resolve(v).kind = "list" -> Len(resolve(v).items) = 0
         [] resolve(v).kind = "nil" -> TRUE
         [] OTHER -> FALSE

\* ForEach as it would be if a list were yielded whole, like any other value.
ForEachWhole(v) ==
  IF ~IsFalsyOrEmptyList(resolve(v)) THEN <<resolve(v)>> ELSE <<>>

\* ForEach as it would be if it did not dereference v.
ForEachNoDeref(v) ==
  IF ~IsFalsyOrEmptyList(v)
  THEN IF v.kind = "list" THEN v.items ELSE <<v>>
  ELSE <<>>

\* ForEach: the values the iterator yields, in order.
ForEach(v) ==
  IF ~IsFalsyOrEmptyList(resolve(v))
  THEN IF resolve(v).kind = "list" THEN resolve(v).items ELSE <<resolve(v)>>
  ELSE <<>>

\* html.EscapeString as it would be if it left the two quotes alone.
RECURSIVE EscapeStringNoQuotes(_)
EscapeStringNoQuotes(s) ==
  IF s = <<>> THEN <<>>
  ELSE (CASE Head(s) = "&" -> <<"&", "a", "m", "p", ";">>
          [] Head(s) = "<" -> <<"&", "l", "t", ";">>
          [] Head(s) = ">" -> <<"&", "g", "t", ";">>
          [] OTHER -> <<Head(s)>>) \o EscapeStringNoQuotes(Tail(s))

\* html.EscapeString
RECURSIVE EscapeString(_)
EscapeString(s) ==
  IF s = <<>> THEN <<>>
  ELSE (CASE Head(s) = "&" -> <<"&", "a", "m", "p", ";">>
          [] Head(s) = "<" -> <<"&", "l", "t", ";">>
          [] Head(s) = ">" -> <<"&", "g", "t", ";">>
          [] Head(s) = "'" -> <<"&", "#", "3", "9", ";">>
          [] Head(s) = "\"" -> <<"&", "#", "3", "4", ";">>
          [] OTHER -> <<Head(s)>>) \o EscapeString(Tail(s))


(***************************************************************************)
(* The partial resolver and the Go generator (compileGo)                   *)
(*                                                                         *)
(* The generated source is modelled by its statements: a function body is  *)
(* a list of instructions, one per statement compileTagGo prints. The      *)
(* indent argument of a call is the expression goIncreaseIndent prints.    *)
(***************************************************************************)

\* walkTags visits all tags in the given slice in pre-order.
RECURSIVE walkTags(_)
walkTags(tags) ==
  IF tags = <<>> THEN <<>>
  ELSE <<Head(tags)>> \o walkTags(Head(tags).body) \o walkTags(Tail(tags))

\* tagsEqual as it would be if it did not compare the bodies.
tagsEqualShallow(t1, t2) == ~(t1.tt # t2.tt \/ t1.s # t2.s \/ t1.indent # t2.indent)

RECURSIVE tagsEqual(_, _)
tagsEqual(t1, t2) ==
  IF t1.tt # t2.tt \/ t1.s # t2.s \/ t1.indent # t2.indent THEN FALSE
  ELSE /\ Len(t1.body) = Len(t2.body)
       /\ \A i \in 1..Len(t1.body) : tagsEqual(t1.body[i], t2.body[i])

\* slices.EqualFunc(a, b, tagsEqual)
EqualFunc(a, b) == Len(a) = Len(b) /\ \A i \in 1..Len(a) : tagsEqual(a[i], b[i])

\* slices.IndexFunc(partials, ...): the index of the first equal tree, or -1
IndexFunc(partials, partialTags) ==
  LET I == {i \in 1..Len(partials) : EqualFunc(partialTags, partials[i])}
  IN IF I = {} THEN -1 ELSE Min(I) - 1

\* load(name): the loader gives [err, text]; a name it has no text for is the
\* empty template.
Load(load, name) ==
  IF name \in DOMAIN load THEN load[name] ELSE [err |-> FALSE, text |-> <<>>]

\* fmt.Sprintf("_%s_p%d", templateName, i)
FuncName(templateName, i) == <<"_">> \o templateName \o <<"_", "p">> \o Itoa(i)

\* partialFuncNames[name] != ""
HasName(partialFuncNames, name) ==
  \E i \in 1..Len(partialFuncNames) : partialFuncNames[i].name = name

\* partialFuncNames[name]
NameOf(partialFuncNames, name) ==
  IF HasName(partialFuncNames, name)
  THEN partialFuncNames[CHOOSE i \in 1..Len(partialFuncNames) :
                          partialFuncNames[i].name = name].fn
  ELSE <<>>

\* The variables of compileGo that gatherPartials works on; loaded is the
\* history of the calls of load and parses that of the calls of parse, by the
\* name of the partial.
InitGather(templateName) ==
  [templateName |-> templateName, partials |-> <<>>, partialFuncNames |-> <<>>,
   err |-> "", loaded |-> <<>>, parses |-> <<>>]

RECURSIVE gatherWalk(_, _, _)

\* gatherIndexed as it would be if the identifier counted the names met so far
\* instead of the distinct partials.
gatherIndexedByName(g, t, load, partialTags, i) ==
  gatherWalk([g EXCEPT !.partials = IF i = -1 THEN Append(@, partialTags) ELSE @,
                       !.partialFuncNames =
                          Append(@, [name |-> t.s,
                                     fn |-> FuncName(g.templateName, Len(g.partialFuncNames))])],
             walkTags(partialTags), load)

\* gatherIndexed as it would be without the call of gatherPartials on the tags
\* of the partial.
gatherIndexedFlat(g, t, load, partialTags, i) ==
  [g EXCEPT !.partials = IF i = -1 THEN Append(@, partialTags) ELSE @,
            !.partialFuncNames =
               Append(@, [name |-> t.s,
                          fn |-> FuncName(g.templateName,
                                          IF i = -1 THEN Len(g.partials) ELSE i)])]

\* gatherPartials at a tag with a new name, the partial parsed and looked up:
\* i is its index among the partials.
gatherIndexed(g, t, load, partialTags, i) ==
  gatherWalk([g EXCEPT !.partials = IF i = -1 THEN Append(@, partialTags) ELSE @,
                       !.partialFuncNames =
                          Append(@, [name |-> t.s,
                                     fn |-> FuncName(g.templateName,
                                                     IF i = -1 THEN Len(g.partials) ELSE i)])],
             walkTags(partialTags), load)

gatherParsed(g, t, load, parsed) ==
  IF parsed.pc # "done" THEN [g EXCEPT !.err = "partial"]
  ELSE gatherIndexed(g, t, load, parsed.result, IndexFunc(g.partials, parsed.result))

\* gatherPartials at a partial or parent tag whose name has no function yet.
gatherTag(g, t, load) ==
  IF Load(load, t.s).err THEN [g EXCEPT !.err = "load", !.loaded = Append(@, t.s)]
  ELSE gatherParsed([g EXCEPT !.loaded = Append(@, t.s), !.parses = Append(@, t.s)], t, load,
                    parse(Load(load, t.s).text))

\* The loop as it would be if an error did not end it.
RECURSIVE gatherWalkOn(_, _, _)
gatherWalkOn(g, walk, load) ==
  IF walk = <<>> THEN g
  ELSE IF Head(walk).tt \in {"partial", "parent"}
          /\ ~HasName(g.partialFuncNames, Head(walk).s)
  THEN gatherWalkOn(gatherTag(g, Head(walk), load), Tail(walk), load)
  ELSE gatherWalkOn(g, Tail(walk), load)

\* The loop of gatherPartials over the tags walkTags yields.
gatherWalk(g, walk, load) ==
  IF walk = <<>> \/ g.err # "" THEN g
  ELSE IF Head(walk).tt \in {"partial", "parent"}
          /\ ~HasName(g.partialFuncNames, Head(walk).s)
  THEN gatherWalk(gatherTag(g, Head(walk), load), Tail(walk), load)
  ELSE gatherWalk(g, Tail(walk), load)

gatherPartials(g, tags, load) == gatherWalk(g, walkTags(tags), load)

\* The deepest nesting of calls of gatherPartials that is followed.
MaxDepth == 4

\* gatherStep as it would be if the name had no identifier yet when
\* gatherPartials is called on the tags of its partial.
gatherStepNamedLate(g, load) ==
  LET walk == g.walks[Len(g.walks)]
      rest == [g EXCEPT !.walks[Len(g.walks)] = Tail(walk)]
      parsed == parse(Load(load, Head(walk).s).text)
      i == IndexFunc(g.partials, parsed.result)
  IN IF g.err # "" \/ walk = <<>> THEN [g EXCEPT !.walks = SubSeq(@, 1, Len(@) - 1)]
     ELSE IF Head(walk).tt \notin {"partial", "parent"}
             \/ HasName(g.partialFuncNames, Head(walk).s)
     THEN rest
     ELSE IF Load(load, Head(walk).s).err
     THEN [rest EXCEPT !.err = "load", !.loaded = Append(@, Head(walk).s)]
     ELSE IF parsed.pc # "done"
     THEN [rest EXCEPT !.err = "partial", !.loaded = Append(@, Head(walk).s),
                       !.parses = Append(@, Head(walk).s)]
     ELSE [rest EXCEPT !.loaded = Append(@, Head(walk).s),
                       !.parses = Append(@, Head(walk).s),
                       !.partials = IF i = -1 THEN Append(@, parsed.result) ELSE @,
                       !.walks = Append(@, walkTags(parsed.result))]

\* gatherPartials one tag at a time. walks has, for each call of
\* gatherPartials that has not returned, the tags its loop has not come to,
\* the innermost call last. A step is one turn of the loop of the innermost
\* call, which for a new name ends with the call of gatherPartials on the
\* tags of the partial, or the return of the call.
gatherStep(g, load) ==
  LET walk == g.walks[Len(g.walks)]
      rest == [g EXCEPT !.walks[Len(g.walks)] = Tail(walk)]
      parsed == parse(Load(load, Head(walk).s).text)
      i == IndexFunc(g.partials, parsed.result)
  IN IF g.err # "" \/ walk = <<>> THEN [g EXCEPT !.walks = SubSeq(@, 1, Len(@) - 1)]
     ELSE IF Head(walk).tt \notin {"partial", "parent"}
             \/ HasName(g.partialFuncNames, Head(walk).s)
     THEN rest
     ELSE IF Load(load, Head(walk).s).err
     THEN [rest EXCEPT !.err = "load", !.loaded = Append(@, Head(walk).s)]
     ELSE IF parsed.pc # "done"
     THEN [rest EXCEPT !.err = "partial", !.loaded = Append(@, Head(walk).s),
                       !.parses = Append(@, Head(walk).s)]
     ELSE [rest EXCEPT !.loaded = Append(@, Head(walk).s),
                       !.parses = Append(@, Head(walk).s),
                       !.partials = IF i = -1 THEN Append(@, parsed.result) ELSE @,
                       !.partialFuncNames =
                          Append(@, [name |-> Head(walk).s,
                                     fn |-> FuncName(g.templateName,
                                                     IF i = -1 THEN Len(g.partials) ELSE i)]),
                       !.walks = Append(@, walkTags(parsed.result))]

\* One statement of the generated code.
Instr(op) ==
  [op |-> op, s |-> <<>>, indent |-> [form |-> "", lit |-> <<>>], body |-> <<>>,
   entries |-> <<>>, merge |-> FALSE, fn |-> <<>>]

\* goIncreaseIndent as it would be if it never referred to the variable.
goIncreaseIndentLiteral(indentVar, indent) == [form |-> "quote", lit |-> indent]

\* goIncreaseIndent: the expression indent, "<indent>" or indent+"<indent>"
goIncreaseIndent(indentVar, indent) ==
  CASE indentVar /\ indent = <<>> -> [form |-> "indent", lit |-> <<>>]
    [] ~indentVar -> [form |-> "quote", lit |-> indent]
    [] OTHER -> [form |-> "indent+quote", lit |-> indent]

\* The field indentArgument of a tag, which the parser never sets.
indentArgument(t) == FALSE

\* condenseLiteralsWithoutIndentation: how many tags from the first one on are
\* literals or indent points, and the literal they make together.
RECURSIVE CondenseCount(_)
CondenseCount(tags) ==
  IF tags = <<>> \/ Head(tags).tt \notin {"literal", "indentPoint"} THEN 0
  ELSE 1 + CondenseCount(Tail(tags))

RECURSIVE CondenseText(_, _)
CondenseText(tags, n) ==
  IF n = 0 THEN <<>> ELSE Head(tags).s \o CondenseText(Tail(tags), n - 1)

condenseLiteralsWithoutIndentation(tags) ==
  [t |-> Tag("literal", CondenseText(tags, CondenseCount(tags)), <<>>),
   n |-> CondenseCount(tags)]

RECURSIVE compileTagListGo(_, _, _, _)

RECURSIVE parentEntriesNested(_, _, _)
parentEntriesNested(body, partialFuncNames, blocks) ==
  IF body = <<>> THEN <<>>
  ELSE IF Head(body).tt = "section"
  THEN parentEntriesNested(Head(body).body, partialFuncNames, blocks)
       \o parentEntriesNested(Tail(body), partialFuncNames, blocks)
  ELSE IF Head(body).tt # "block" THEN parentEntriesNested(Tail(body), partialFuncNames, blocks)
  ELSE <<[name |-> Head(body).s,
          body |-> compileTagListGo(Head(body).body, partialFuncNames, blocks, TRUE)]>>
       \o parentEntriesNested(Tail(body), partialFuncNames, blocks)

\* The entries of partialBlocks a parent tag's body gives: one for each block.
RECURSIVE parentEntries(_, _, _)
parentEntries(body, partialFuncNames, blocks) ==
  IF body = <<>> THEN <<>>
  ELSE IF Head(body).tt # "block" THEN parentEntries(Tail(body), partialFuncNames, blocks)
  ELSE <<[name |-> Head(body).s,
          body |-> compileTagListGo(Head(body).body, partialFuncNames, blocks, TRUE)]>>
       \o parentEntries(Tail(body), partialFuncNames, blocks)

\* case parent as it would be if the blocks in scope were not copied over the
\* entries of this tag.
compileParentNoMerge(t, partialFuncNames, blocks, indent) ==
  <<[Instr("parent") EXCEPT !.entries = parentEntries(t.body, partialFuncNames, blocks),
                           !.merge = FALSE,
                           !.fn = NameOf(partialFuncNames, t.s),
                           !.indent = goIncreaseIndent(indent, t.indent)]>>

compileParent(t, partialFuncNames, blocks, indent) ==
  <<[Instr("parent") EXCEPT !.entries = parentEntries(t.body, partialFuncNames, blocks),
                           !.merge = blocks,
                           !.fn = NameOf(partialFuncNames, t.s),
                           !.indent = goIncreaseIndent(indent, t.indent)]>>

\* The statements compileTagGo prints for the tag t.
compileTagGo(t, partialFuncNames, blocks, indent) ==
  CASE t.tt = "literal" -> <<[Instr("literal") EXCEPT !.s = t.s]>>
    [] t.tt = "indentPoint" -> IF indent THEN <<Instr("indent")>> ELSE <<>>
    [] t.tt = "variable" -> <<[Instr("escaped") EXCEPT !.s = t.s]>>
    [] t.tt = "rawVariable" -> <<[Instr("raw") EXCEPT !.s = t.s]>>
    [] t.tt = "section" ->
         <<[Instr("for") EXCEPT !.s = t.s,
              !.body = compileTagListGo(t.body, partialFuncNames, blocks, indent)]>>
    [] t.tt = "invertedSection" ->
         <<[Instr("ifFalsy") EXCEPT !.s = t.s,
              !.body = compileTagListGo(t.body, partialFuncNames, blocks, indent)]>>
    [] t.tt = "partial" ->
         <<[Instr("call") EXCEPT !.fn = NameOf(partialFuncNames, t.s),
                                !.indent = goIncreaseIndent(indent, t.indent)]>>
    [] t.tt = "block" ->
         IF blocks
         THEN <<[Instr("block") EXCEPT !.s = t.s,
                   !.indent = goIncreaseIndent(indentArgument(t) /\ indent, t.indent),
                   !.body = compileTagListGo(t.body, partialFuncNames, blocks, indent)]>>
         ELSE compileTagListGo(t.body, partialFuncNames, blocks, indent)
    [] t.tt = "parent" -> compileParent(t, partialFuncNames, blocks, indent)
    [] OTHER -> <<Instr("unhandled")>>

compileTagListGo(tags, partialFuncNames, blocks, indent) ==
  IF tags = <<>> THEN <<>>
  ELSE IF ~indent /\ Head(tags).tt = "literal"
  THEN compileTagGo(condenseLiteralsWithoutIndentation(tags).t, partialFuncNames, blocks, indent)
       \o compileTagListGo(SubSeq(tags, condenseLiteralsWithoutIndentation(tags).n + 1, Len(tags)),
                           partialFuncNames, blocks, indent)
  ELSE compileTagGo(Head(tags), partialFuncNames, blocks, indent)
       \o compileTagListGo(Tail(tags), partialFuncNames, blocks, indent)

LowerLetters == <<"a", "b", "c", "d", "e", "f", "g", "h", "i", "j", "k", "l", "m", "n", "o", "p", "q", "r", "s", "t", "u", "v", "w", "x", "y", "z">>

UpperLetters == <<"A", "B", "C", "D", "E", "F", "G", "H", "I", "J", "K", "L", "M", "N", "O", "P", "Q", "R", "S", "T", "U", "V", "W", "X", "Y", "Z">>

\* unicode.ToUpper
ToUpper(c) ==
  IF \E i \in 1..26 : LowerLetters[i] = c
  THEN UpperLetters[CHOOSE i \in 1..26 : LowerLetters[i] = c] ELSE c

RECURSIVE lowerSnakeLoop(_, _)
lowerSnakeLoop(s, capitalize) ==
  IF s = <<>> THEN <<>>
  ELSE IF capitalize THEN <<ToUpper(Head(s))>> \o lowerSnakeLoop(Tail(s), FALSE)
  ELSE IF Head(s) = "_" THEN lowerSnakeLoop(Tail(s), TRUE)
  ELSE <<Head(s)>> \o lowerSnakeLoop(Tail(s), FALSE)

\* lowerSnakeToUpperCamel as it would be if capitalize started out false.
lowerSnakeToCamel(s) == lowerSnakeLoop(s, FALSE)

lowerSnakeToUpperCamel(s) == lowerSnakeLoop(s, TRUE)

\* What compileGo returns: an error, or the source of the template's function
\* and of one function for each of the partials.
NoOutput(err, g) ==
  [err |-> err, package |-> <<>>, name |-> <<>>, main |-> <<>>, units |-> <<>>,
   partials |-> g.partials, partialFuncNames |-> g.partialFuncNames, loaded |-> g.loaded,
   parses |-> g.parses]

\* compileGo once the partials are gathered. partials, partialFuncNames and
\* loaded are the variables of the call (history).
compileGathered(packageName, templateName, tags, g) ==
  IF g.err # "" THEN NoOutput(g.err, g)
  ELSE [err |-> "", package |-> packageName,
        name |-> lowerSnakeToUpperCamel(templateName),
        main |-> compileTagListGo(tags, g.partialFuncNames, FALSE, FALSE),
        units |-> [i \in 1..Len(g.partials) |->
                     [name |-> FuncName(templateName, i - 1),
                      code |-> compileTagListGo(g.partials[i], g.partialFuncNames, TRUE, TRUE)]],
        partials |-> g.partials, partialFuncNames |-> g.partialFuncNames,
        loaded |-> g.loaded, parses |-> g.parses]

compileParsed(packageName, templateName, parsed, load) ==
  IF parsed.pc # "done" THEN NoOutput("parse", InitGather(templateName))
  ELSE compileGathered(packageName, templateName, parsed.result,
                       gatherPartials(InitGather(templateName), parsed.result, load))

compileGo(packageName, templateName, source, load) ==
  compileParsed(packageName, templateName, parse(source), load)


(***************************************************************************)
(* The generated code at run time                                          *)
(*                                                                         *)
(* calls is the call stack. Each call has the variables of its function:   *)
(* indent, blocks and stack, and conts, the statement lists it is inside   *)
(* of, innermost last (a function body, the body of a for or an if).       *)
(* out is the buffer. The rest is history: unit, callerIndent, tagIndent and*)
(* mark say how the call was made and where its output starts, last is the *)
(* last write, log has one entry for each for and if statement run, with   *)
(* the values that were on top of the stack each time its body started.    *)
(***************************************************************************)

Cont(code) == [code |-> code, i |-> 1, iter |-> <<>>, loop |-> FALSE, entry |-> 0, elem |-> Invalid]

Call(code, indent, blocks, stack, unit) ==
  [indent |-> indent, blocks |-> blocks, stack |-> stack, conts |-> <<Cont(code)>>,
   unit |-> unit, callerIndent |-> <<>>, tagIndent |-> <<>>, mark |-> 0]

MachineIdle == [pc |-> "idle", calls |-> <<>>, out |-> <<>>, last |-> [kind |-> "", text |-> <<>>], log |-> <<>>]

\* The deepest call stack the generated code is run to.
MaxCalls == 6

CurCall(m) == m.calls[Len(m.calls)]

CurCont(m) == CurCall(m).conts[Len(CurCall(m).conts)]

AtEnd(m) == CurCont(m).i > Len(CurCont(m).code)

\* The statement to run next.
CurInstr(m) == IF AtEnd(m) THEN Instr("end") ELSE CurCont(m).code[CurCont(m).i]

Advance(m) ==
  [m EXCEPT !.calls[Len(m.calls)].conts[Len(CurCall(m).conts)].i = @ + 1]

\* buf.WriteString(text)
Write(m, kind, text) ==
  [Advance(m) EXCEPT !.out = @ \o text, !.last = [kind |-> kind, text |-> text]]

\* blocks[name]: b, ok
HasBlock(blocks, name) == \E i \in 1..Len(blocks) : blocks[i].name = name

BlockOf(blocks, name) == blocks[CHOOSE i \in 1..Len(blocks) : blocks[i].name = name]

\* partialBlocks[name] = b
SetBlock(blocks, b) ==
  IF HasBlock(blocks, b.name)
  THEN [i \in 1..Len(blocks) |-> IF blocks[i].name = b.name THEN b ELSE blocks[i]]
  ELSE Append(blocks, b)

\* for k, v := range blocks { partialBlocks[k] = v }
RECURSIVE SetBlocks(_, _)
SetBlocks(partialBlocks, blocks) ==
  IF blocks = <<>> THEN partialBlocks
  ELSE SetBlocks(SetBlock(partialBlocks, Head(blocks)), Tail(blocks))

\* The function literals a parent statement assigns to partialBlocks, in order:
\* each refers to the variable blocks of the function it is written in.
RECURSIVE Closures(_, _)
Closures(entries, blocks) ==
  IF entries = <<>> THEN <<>>
  ELSE SetBlock(Closures(SubSeq(entries, 1, Len(entries) - 1), blocks),
                [name |-> entries[Len(entries)].name,
                 code |-> entries[Len(entries)].body, blocks |-> blocks])

\* The value of the indent argument of a call, in a function whose variable
\* indent (if it has one) is indent.
IndentValue(e, indent) ==
  CASE e.form = "indent" -> indent
    [] e.form = "quote" -> e.lit
    [] OTHER -> indent \o e.lit

\* The body of the function named fn.
UnitCode(units, fn) ==
  IF \E i \in 1..Len(units) : units[i].name = fn
  THEN units[CHOOSE i \in 1..Len(units) : units[i].name = fn].code
  ELSE <<Instr("undefined")>>

\* A call of a function or of a function value: a new frame, unless the call
\* stack is as deep as it is followed.
PushCall(m, c) ==
  IF Len(m.calls) >= MaxCalls THEN [m EXCEPT !.pc = "overflow"]
  ELSE [m EXCEPT !.calls = Append(@, [c EXCEPT !.mark = Len(m.out)])]

PushCont(m, k) == [m EXCEPT !.calls[Len(m.calls)].conts = Append(@, k)]

\* stack = append(stack, e) and the first statement of the body of a for.
BeginIteration(m, body, elems, entry) ==
  [PushCont(m, [Cont(body) EXCEPT !.iter = Tail(elems), !.loop = TRUE,
                                  !.entry = entry, !.elem = Head(elems)])
     EXCEPT !.calls[Len(m.calls)].stack = Append(@, Head(elems)),
            !.log[entry].runs = Append(@, Head(elems))]

LogEntry(op, v, runs, done) == [op |-> op, v |-> v, runs |-> runs, done |-> done]

\* for e := range m.ForEach(m.Lookup(stack, name))
ForStep(m, v) ==
  IF ForEach(v) = <<>>
  THEN [Advance(m) EXCEPT !.log = Append(@, LogEntry("for", v, <<>>, TRUE))]
  ELSE BeginIteration([Advance(m) EXCEPT !.log = Append(@, LogEntry("for", v, <<>>, FALSE))],
                      CurInstr(m).body, ForEach(v), Len(m.log) + 1)

\* if m.IsFalsyOrEmptyList(m.Lookup(stack, name))
IfFalsyStep(m, v) ==
  IF IsFalsyOrEmptyList(v)
  THEN PushCont([Advance(m) EXCEPT !.log =
                   Append(@, LogEntry("ifFalsy", v, <<CurCall(m).stack[Len(CurCall(m).stack)]>>, TRUE))],
                Cont(CurInstr(m).body))
  ELSE [Advance(m) EXCEPT !.log = Append(@, LogEntry("ifFalsy", v, <<>>, TRUE))]

\* CallUnit as it would be if the function got the blocks of its caller.
CallUnitWithBlocks(m, units, in, blocks) ==
  PushCall(Advance(m),
           [Call(UnitCode(units, in.fn), IndentValue(in.indent, CurCall(m).indent),
                 SetBlocks(blocks, CurCall(m).blocks), CurCall(m).stack, in.fn)
              EXCEPT !.callerIndent = CurCall(m).indent, !.tagIndent = in.indent.lit])

\* fn(buf, <indent>, stack, blocks)
CallUnit(m, units, in, blocks) ==
  PushCall(Advance(m),
           [Call(UnitCode(units, in.fn), IndentValue(in.indent, CurCall(m).indent),
                 blocks, CurCall(m).stack, in.fn)
              EXCEPT !.callerIndent = CurCall(m).indent, !.tagIndent = in.indent.lit])

\* if b, ok := blocks[name]; ok { b(buf, <indent>, stack) } else { ... }
BlockStep(m, in) ==
  IF HasBlock(CurCall(m).blocks, in.s)
  THEN PushCall(Advance(m),
                [Call(BlockOf(CurCall(m).blocks, in.s).code,
                      IndentValue(in.indent, CurCall(m).indent),
                      BlockOf(CurCall(m).blocks, in.s).blocks, CurCall(m).stack, <<"$">> \o in.s)
                   EXCEPT !.callerIndent = CurCall(m).indent, !.tagIndent = in.indent.lit])
  ELSE PushCont(Advance(m), Cont(in.body))

\* The block of a parent tag: partialBlocks is made, then the function called.
ParentStep(m, units, in) ==
  CallUnit(m, units, in,
           IF in.merge
           THEN SetBlocks(Closures(in.entries, CurCall(m).blocks), CurCall(m).blocks)
           ELSE Closures(in.entries, CurCall(m).blocks))

\* EndStep as it would be if the end of a for left the last element on the
\* stack.
EndStepKeepsFrame(m) ==
  IF CurCont(m).loop /\ CurCont(m).iter # <<>>
  THEN [m EXCEPT !.calls[Len(m.calls)].stack =
                    Append(SubSeq(@, 1, Len(@) - 1), Head(CurCont(m).iter)),
                 !.calls[Len(m.calls)].conts[Len(CurCall(m).conts)] =
                    [@ EXCEPT !.i = 1, !.iter = Tail(@), !.elem = Head(CurCont(m).iter)],
                 !.log[CurCont(m).entry].runs = Append(@, Head(CurCont(m).iter))]
  ELSE IF CurCont(m).loop
  THEN [m EXCEPT !.calls[Len(m.calls)].conts = SubSeq(@, 1, Len(@) - 1),
                 !.log[CurCont(m).entry].done = TRUE]
  ELSE IF Len(CurCall(m).conts) > 1
  THEN [m EXCEPT !.calls[Len(m.calls)].conts = SubSeq(@, 1, Len(@) - 1)]
  ELSE IF Len(m.calls) > 1 THEN [m EXCEPT !.calls = SubSeq(@, 1, Len(@) - 1)]
  ELSE [m EXCEPT !.calls = <<>>, !.pc = "done"]

\* The end of a statement list: the next iteration of a for, or the statement
\* after the body, or the return of the function.
EndStep(m) ==
  IF CurCont(m).loop /\ CurCont(m).iter # <<>>
  THEN [m EXCEPT !.calls[Len(m.calls)].stack =
                    Append(SubSeq(@, 1, Len(@) - 1), Head(CurCont(m).iter)),
                 !.calls[Len(m.calls)].conts[Len(CurCall(m).conts)] =
                    [@ EXCEPT !.i = 1, !.iter = Tail(@), !.elem = Head(CurCont(m).iter)],
                 !.log[CurCont(m).entry].runs = Append(@, Head(CurCont(m).iter))]
  ELSE IF CurCont(m).loop
  THEN [m EXCEPT !.calls[Len(m.calls)].stack = SubSeq(@, 1, Len(@) - 1),
                 !.calls[Len(m.calls)].conts = SubSeq(@, 1, Len(@) - 1),
                 !.log[CurCont(m).entry].done = TRUE]
  ELSE IF Len(CurCall(m).conts) > 1
  THEN [m EXCEPT !.calls[Len(m.calls)].conts = SubSeq(@, 1, Len(@) - 1)]
  ELSE IF Len(m.calls) > 1 THEN [m EXCEPT !.calls = SubSeq(@, 1, Len(@) - 1)]
  ELSE [m EXCEPT !.calls = <<>>, !.pc = "done"]

\* One statement of the generated code.
MachineStep(m, units) ==
  CASE AtEnd(m) -> EndStep(m)
    [] CurInstr(m).op = "literal" -> Write(m, "literal", CurInstr(m).s)
    [] CurInstr(m).op = "indent" -> Write(m, "indent", CurCall(m).indent)
    [] CurInstr(m).op = "escaped" ->
         Write(m, "value", EscapeString(ToString(Lookup(CurCall(m).stack, CurInstr(m).s))))
    [] CurInstr(m).op = "raw" ->
         Write(m, "value", ToString(Lookup(CurCall(m).stack, CurInstr(m).s)))
    [] CurInstr(m).op = "for" -> ForStep(m, Lookup(CurCall(m).stack, CurInstr(m).s))
    [] CurInstr(m).op = "ifFalsy" -> IfFalsyStep(m, Lookup(CurCall(m).stack, CurInstr(m).s))
    [] CurInstr(m).op = "call" -> CallUnit(m, units, CurInstr(m), <<>>)
    [] CurInstr(m).op = "block" -> BlockStep(m, CurInstr(m))
    [] CurInstr(m).op = "parent" -> ParentStep(m, units, CurInstr(m))
    [] OTHER -> [m EXCEPT !.pc = "undefined"]

\* The call of the template's function: stack := []reflect.Value{reflect.ValueOf(data)}
StartMachine(main, data) ==
  [MachineIdle EXCEPT !.pc = "run", !.calls = <<Call(main, <<>>, <<>>, <<data>>, <<>>)>>]

RECURSIVE RunMachine(_, _)
RunMachine(m, units) == IF m.pc # "run" THEN m ELSE RunMachine(MachineStep(m, units), units)

\* What the template's function of the generated code writes to buf for data.
Render(output, data) == RunMachine(StartMachine(output.main, data), output.units).out


(***************************************************************************)
(* The templates parse is run on                                           *)
(***************************************************************************)

\* The pieces the bounded templates are made of.
Pieces ==
  {<<"x">>,
   <<" ">>,
   <<"\n">>,
   <<"{", "{", "a", "}", "}">>,
   <<"{", "{", "{", "a", "}", "}", "}">>,
   <<"{", "{", "#", "a", "}", "}">>,
   <<"{", "{", "/", "a", "}", "}">>,
   <<"{", "{", "/", "b", "}", "}">>,
   <<"{", "{", "$", "a", "}", "}">>,
   <<"{", "{", "<", "a", "}", "}">>,
   <<"{", "{", ">", "p", "}", "}">>,
   <<"{", "{", "!", "c", "}", "}">>,
   <<"{", "{", "=", "|", " ", "|", "=", "}", "}">>,
   <<"{", "{">>}

SectionExample == <<" ", " ", "{", "{", "#", "a", "}", "}", "\n", " ", " ", "{", "{", "b", "}", "}", "\n", " ", " ", "{", "{", "/", "a", "}", "}", "\n">>

PartialExample == <<" ", " ", "{", "{", ">", "p", "}", "}", "\n">>

BlockDedentExample == <<"{", "{", "$", "b", "}", "}", "\n", " ", " ", "{", "{", "x", "}", "}", "\n", "{", "{", "/", "b", "}", "}", "\n">>

ParentExample == <<" ", "{", "{", "<", "a", "}", "}", "\n", " ", " ", "{", "{", "$", "i", "d", "}", "}", "1", "2", "3", "{", "{", "/", "i", "d", "}", "}", "\n", " ", "{", "{", "/", "a", "}", "}", "\n">>

ParameterExample == <<"<", "d", "i", "v", "\n", " ", "i", "d", "=", "\"", "{", "{", "$", "i", "d", "}", "}", "{", "{", "/", "i", "d", "}", "}", "\"", "\n", ">", "h", "i", "<", "/", "d", "i", "v", ">", "\n">>

OverrideExample == <<"{", "{", "<", "b", "a", "s", "e", "}", "}", "{", "{", "$", "i", "d", "}", "}", "4", "5", "6", "{", "{", "/", "i", "d", "}", "}", "{", "{", "/", "b", "a", "s", "e", "}", "}">>

DelimiterExample == <<"{", "{", "=", "|", " ", "|", "=", "}", "}", "\n", " ", "|", "#", "a", "|", "\n", "|", "/", "a", "|", "{", "{", "a", "}", "}", "\n">>

CommentExample == <<"x", "\n", " ", "{", "{", "!", " ", "a", "\n", " ", "b", " ", "}", "}", " ", "\n", "{", "{", "#", "a", "}", "}", "{", "{", "/", "b", "}", "}">>

ParameterTrailingExample == <<" ", " ", "{", "{", "$", "a", "}", "}", "\n", "x", "{", "{", "/", "a", "}", "}", "y", "\n">>

UnclosedExample == <<"{", "{", "#", "a", "}", "}", "\n", "{", "{", "^", "b", "}", "}", "\n", "{", "{", "/", "b", "}", "}", "\n">>

EmptyTagExample == <<"{", "{", "#", " ", "}", "}", "x">>

ExtraWordsExample == <<"x", "{", "{", "a", " ", "b", "}", "}">>

MissingDelimiterExample == <<"{", "{", "=", "|", "=", "}", "}">>

ManyDelimitersExample == <<"{", "{", "=", "|", " ", "|", " ", "|", "=", "}", "}", "\n">>

BlockCloseExample == <<"{", "{", "$", "a", "}", "}", "\n", "{", "{", "/", "a", "}", "}", "x">>

ArgumentCloseExample == <<"{", "{", "<", "a", "}", "}", "{", "{", "$", "b", "}", "}", "x", "\n", "{", "{", "/", "b", "}", "}", "y", "{", "{", "/", "a", "}", "}">>

ParentInlineExample == <<"{", "{", "<", "p", "}", "}", " ", "{", "{", "a", "}", "}", "{", "{", "/", "p", "}", "}", "\n">>

LookaheadDelimiterExample == <<"{", "{", "$", "a", "}", "}", "\n", "{", "{", "=", "|", "=", "}", "}", "\n", "{", "{", "/", "a", "}", "}", "\n">>

LoneEqualsExample == <<"{", "{", "=", "}", "}", "x">>

EmptyDelimiterExample == <<"{", "{", "=", "=", "}", "}">>

NoEndEqualsExample == <<"{", "{", "=", "|", " ", "|", "}", "}", "x">>

PaddedDelimiterExample == <<"{", "{", "=", " ", "[", " ", "]", " ", "=", "}", "}", "[", "a", "]", "{", "{", "b", "}", "}", "\n">>

RestoreDelimiterExample == <<"{", "{", "=", "|", " ", "|", "=", "}", "}", "|", "a", "|", "|", "=", "{", "{", " ", "}", "}", "=", "|", "{", "{", "b", "}", "}", "|", "c", "|">>

LoneSigilExample == <<"{", "{", "#", "}", "}", "x", "{", "{", "/", "}", "}">>

EmptyInterpolationExample == <<"x", "{", "{", " ", "}", "}">>

EmptyRawExample == <<"{", "{", "{", "}", "}", "}">>

EmptyCloseExample == <<"{", "{", "#", "a", "}", "}", "{", "{", "/", " ", "}", "}">>

EmptyPartialExample == <<"{", "{", ">", " ", "}", "}", "\n">>

LookaheadBrokenExample == <<"{", "{", "$", "a", "}", "}", "\n", "{", "{", "b", "\n", "}", "}", "{", "{", "/", "a", "}", "}">>

LookaheadCommentExample == <<"{", "{", "<", "a", "}", "}", "x", "{", "{", "!", " ", "c", "\n">>

UnterminatedCommentExample == <<"x", "{", "{", "!", " ", "c", "\n", "d">>

BrokenTagExample == <<"{", "{", "#", "a", "}", "}", "\n", "{", "{", "b", "\n", "}", "}", "\n", "{", "{", "/", "a", "}", "}">>

NestedDedentExample == <<"{", "{", "$", "a", "}", "}", "\n", " ", " ", "{", "{", "$", "b", "}", "}", "\n", " ", " ", " ", "x", "\n", " ", "y", "\n", " ", " ", "{", "{", "/", "b", "}", "}", "\n", "{", "{", "/", "a", "}", "}", "\n">>

ArgumentIndentExample == <<"{", "{", "<", "a", "}", "}", "{", "{", "$", "b", "}", "}", "\n", " ", " ", "x", "\n", "{", "{", "/", "b", "}", "}", "{", "{", "/", "a", "}", "}", "\n">>

ArgumentInlineCloseExample == <<"{", "{", "<", "a", "}", "}", "{", "{", "$", "b", "}", "}", "\n", "x", "{", "{", "/", "b", "}", "}", "{", "{", "/", "a", "}", "}", "\n">>

DedentRawExample == <<"{", "{", "<", "a", "}", "}", "\n", "{", "{", "$", "b", "}", "}", "\n", " ", " ", "{", "{", "{", "x", "}", "}", "}", " ", "\n", "{", "{", "/", "b", "}", "}", "\n", "{", "{", "/", "a", "}", "}", "\n">>

Examples ==
  {SectionExample,
   PartialExample,
   BlockDedentExample,
   ParentExample,
   ParameterExample,
   OverrideExample,
   DelimiterExample,
   CommentExample,
   ParameterTrailingExample,
   UnclosedExample,
   EmptyTagExample,
   ExtraWordsExample,
   MissingDelimiterExample,
   ManyDelimitersExample,
   BlockCloseExample,
   ArgumentCloseExample,
   ParentInlineExample,
   DedentRawExample,
   LookaheadDelimiterExample,
   LoneEqualsExample,
   EmptyDelimiterExample,
   NoEndEqualsExample,
   PaddedDelimiterExample,
   RestoreDelimiterExample,
   LoneSigilExample,
   EmptyInterpolationExample,
   EmptyRawExample,
   EmptyCloseExample,
   EmptyPartialExample,
   LookaheadBrokenExample,
   LookaheadCommentExample,
   UnterminatedCommentExample,
   BrokenTagExample,
   NestedDedentExample,
   ArgumentIndentExample,
   ArgumentInlineCloseExample}

\* The longest bounded template, in pieces.
MaxPieces == 3

RECURSIVE Concat(_)
Concat(ss) == IF ss = <<>> THEN <<>> ELSE Head(ss) \o Concat(Tail(ss))

PieceSeqs == UNION {[1..n -> Pieces] : n \in 0..MaxPieces}

Templates == {Concat(ps) : ps \in PieceSeqs} \cup Examples

(***************************************************************************)
(* The context stacks and the paths Lookup is run on                       *)
(***************************************************************************)

KeyA == <<"a">>

KeyB == <<"b">>

Field(k, v) == [k |-> k, v |-> v]

LeafValues == {StringValue(<<"X">>), NilValue, BoolValue(FALSE)}

InnerValues ==
  LeafValues \cup {MapValue(<<>>), MapValue(<<Field(KeyB, StringValue(<<"Y">>))>>)}

FieldLists ==
  {<<>>}
  \cup {<<Field(KeyA, x)>> : x \in InnerValues}
  \cup {<<Field(KeyB, x)>> : x \in LeafValues}
  \cup {<<Field(KeyA, x), Field(KeyB, StringValue(<<"Z">>))>> : x \in InnerValues}

Frames ==
  {MapValue(f) : f \in FieldLists}
  \cup {StructValue(<<Field(KeyA, StringValue(<<"S">>))>>),
        PtrValue(MapValue(<<Field(KeyA, StringValue(<<"P">>))>>)),
        IntMapValue(<<Field(KeyA, StringValue(<<"I">>))>>),
        NilValue,
        StringValue(<<"X">>)}

\* The deepest context stack.
MaxFrames == 2

ContextStacks == UNION {[1..n -> Frames] : n \in 1..MaxFrames}

Paths == {<<".">>, <<"a">>, <<"b">>, <<"a", ".", "b">>, <<"b", ".", "a">>}

(***************************************************************************)
(* The partials, the loaders and the data the compiler and the generated   *)
(* code are run on                                                         *)
(***************************************************************************)

\* A loader that has the given texts: pairs of a name and a text.
LoaderOf(pairs) ==
  [n \in {pairs[i][1] : i \in 1..Len(pairs)} |->
     [err |-> FALSE, text |-> pairs[CHOOSE i \in 1..Len(pairs) : pairs[i][1] = n][2]]]

\* A loader that fails.
LoadError == [err |-> TRUE, text |-> <<>>]

NameP == <<"p">>

NameQ == <<"q">>

NameR == <<"r">>

NameBase == <<"b", "a", "s", "e">>

NameMid == <<"m", "i", "d">>

ParentFirstExample == <<"{", "{", "<", "r", "}", "}", "{", "{", "$", "b", "}", "}", "{", "{", ">", "p", "}", "}", "{", "{", "/", "b", "}", "}", "{", "{", "/", "r", "}", "}", "{", "{", ">", "r", "}", "}">>

\* The templates compileGo is run on.
CompileSources ==
  {<<"{", "{", ">", "p", "}", "}", "{", "{", ">", "q", "}", "}">>,
   <<"{", "{", ">", "q", "}", "}", "{", "{", ">", "p", "}", "}", "{", "{", ">", "r", "}", "}">>,
   <<"{", "{", ">", "p", "}", "}", " ", "{", "{", ">", "p", "}", "}">>,
   <<"{", "{", "<", "r", "}", "}", "{", "{", "/", "r", "}", "}", "{", "{", ">", "p", "}", "}">>,
   <<" ", "{", "{", ">", "p", "}", "}", "\n", "{", "{", ">", "q", "}", "}", "\n">>,
   <<"{", "{", "#", "a", "}", "}", "{", "{", ">", "r", "}", "}", "{", "{", "/", "a", "}", "}", "{", "{", ">", "q", "}", "}", "{", "{", ">", "p", "}", "}">>,
   ParentFirstExample,
   <<"x">>}

\* The texts of their partials: some refer to another partial, two differ below
\* their first tag only, one is not a template.
PartialTexts ==
  {<<"x", "\n">>,
   <<"{", "{", ">", "q", "}", "}">>,
   <<"{", "{", ">", "r", "}", "}", "y">>,
   <<"{", "{", "#", "a", "}", "}", "x", "{", "{", "/", "a", "}", "}">>,
   <<"{", "{", "#", "a", "}", "}", "y", "{", "{", "/", "a", "}", "}">>,
   <<"{", "{", "#", "a", "}", "}">>}

PartialFiles == {[err |-> FALSE, text |-> x] : x \in PartialTexts} \cup {LoadError}

Loaders == [{NameP, NameQ, NameR} -> PartialFiles]

TemplateNames ==
  {<<"t">>, <<"m", "y", "_", "t">>, <<"f", "o", "o", "_", "b", "a", "r">>}

PackageName == <<"m", "a", "i", "n">>

\* A template, its partials and the data it is rendered with.
Scenario(source, load, data) == [source |-> source, load |-> load, data |-> data]

SectionPairExample == <<"{", "{", "#", "a", "}", "}", "[", "{", "{", ".", "}", "}", "]", "{", "{", "/", "a", "}", "}", "{", "{", "^", "a", "}", "}", "-", "{", "{", "/", "a", "}", "}">>

NestedSectionExample == <<"{", "{", "#", "a", "}", "}", "{", "{", "#", "b", "}", "}", "{", "{", ".", "}", "}", "{", "{", "/", "b", "}", "}", ";", "{", "{", "/", "a", "}", "}", "{", "{", "^", "b", "}", "}", "-", "{", "{", "/", "b", "}", "}">>

\* The values a section is rendered for.
SectionValues ==
  {BoolValue(FALSE), BoolValue(TRUE), StringValue(<<>>), StringValue(<<"X">>),
   NilValue, FloatValue(0), FloatValue(1), NaNValue,
   ListValue(<<>>), ListValue(<<StringValue(<<"x">>), StringValue(<<"y">>)>>),
   ListValue(<<BoolValue(FALSE), NilValue, ListValue(<<>>)>>),
   ListValue(<<MapValue(<<Field(KeyB, StringValue(<<"1">>))>>),
               MapValue(<<Field(KeyB, ListValue(<<FloatValue(2), FloatValue(3)>>))>>)>>),
   MapValue(<<Field(KeyB, StringValue(<<"Y">>))>>),
   PtrValue(ListValue(<<StringValue(<<"z">>)>>)),
   IntValue(0), IntValue(2), PtrValue(ListValue(<<>>)), PtrValue(BoolValue(TRUE)),
   StructValue(<<Field(KeyB, StringValue(<<"S">>))>>)}

InnerSectionValues == {StringValue(<<"Z">>), BoolValue(FALSE), ListValue(<<FloatValue(1), FloatValue(0)>>)}

SectionData ==
  {MapValue(<<>>)}
  \cup {MapValue(<<Field(KeyA, v)>>) : v \in SectionValues}
  \cup {MapValue(<<Field(KeyA, v), Field(KeyB, w)>>) : v \in SectionValues, w \in InnerSectionValues}

SectionScenarios ==
  {Scenario(s, LoaderOf(<<>>), d) : s \in {SectionPairExample, NestedSectionExample}, d \in SectionData}

LinesExample == <<"x", "\n", "y", "\n">>

InlinePartialExample == <<"x", " ", "{", "{", ">", "p", "}", "}", "\n">>

NestedPartialExample == <<" ", "{", "{", ">", "q", "}", "}", "\n">>

BlockPartialExample == <<"{", "{", "$", "b", "}", "}", "\n", " ", " ", "{", "{", ">", "p", "}", "}", "\n", "{", "{", "/", "b", "}", "}", "\n">>

AfterInvertedExample == <<"x", "{", "{", "^", "a", "}", "}", "\n", "{", "{", "/", "a", "}", "}", "\n", " ", " ", "{", "{", ">", "p", "}", "}", "\n">>

\* The texts of the partial p of the templates that refer to it from an indented line.
IndentedPartials ==
  {LinesExample,
   <<"{", "{", "a", "}", "}", "\n">>,
   <<"{", "{", "#", "a", "}", "}", "x", "\n", "{", "{", "/", "a", "}", "}">>,
   <<"x", "\n", " ", "{", "{", ">", "r", "}", "}", "\n">>,
   <<"x", "\n", "\n", "y">>,
   <<>>}

IndentData ==
  {MapValue(<<>>),
   MapValue(<<Field(KeyA, StringValue(<<"X", "\n", "Y">>))>>),
   MapValue(<<Field(KeyA, ListValue(<<FloatValue(1), FloatValue(2)>>))>>)}

PartialScenarios ==
  {Scenario(s, LoaderOf(<<<<NameP, x>>, <<NameQ, <<" ", "{", "{", ">", "p", "}", "}", "\n">>>>,
                          <<NameR, <<"z", "\n">>>>>>), d) :
     s \in {PartialExample, InlinePartialExample, NestedPartialExample, AfterInvertedExample,
            BlockPartialExample},
     x \in IndentedPartials, d \in IndentData}

DefaultExample == <<"{", "{", "$", "i", "d", "}", "}", "1", "2", "3", "{", "{", "/", "i", "d", "}", "}">>

NestedOverrideExample == <<"{", "{", "<", "m", "i", "d", "}", "}", "{", "{", "$", "i", "d", "}", "}", "4", "5", "6", "{", "{", "/", "i", "d", "}", "}", "{", "{", "/", "m", "i", "d", "}", "}">>

MidExample == <<"{", "{", "<", "b", "a", "s", "e", "}", "}", "{", "{", "$", "i", "d", "}", "}", "7", "8", "9", "{", "{", "/", "i", "d", "}", "}", "{", "{", "/", "b", "a", "s", "e", "}", "}">>

\* Templates that inherit from mid or from base.
ParentTemplates ==
  {OverrideExample,
   NestedOverrideExample,
   <<"{", "{", "<", "m", "i", "d", "}", "}", "{", "{", "/", "m", "i", "d", "}", "}">>,
   <<"{", "{", ">", "m", "i", "d", "}", "}">>,
   <<"{", "{", "<", "m", "i", "d", "}", "}", "{", "{", "$", "x", "}", "}", "4", "{", "{", "/", "x", "}", "}", "{", "{", "$", "x", "}", "}", "5", "{", "{", "/", "x", "}", "}", "{", "{", "/", "m", "i", "d", "}", "}">>,
   <<"{", "{", "<", "m", "i", "d", "}", "}", "{", "{", "$", "i", "d", "}", "}", "{", "{", "<", "b", "a", "s", "e", "}", "}", "{", "{", "$", "i", "d", "}", "}", "6", "{", "{", "/", "i", "d", "}", "}", "{", "{", "/", "b", "a", "s", "e", "}", "}", "{", "{", "/", "i", "d", "}", "}", "{", "{", "/", "m", "i", "d", "}", "}">>}

MidTemplates ==
  {MidExample,
   <<"{", "{", "<", "b", "a", "s", "e", "}", "}", "{", "{", "$", "x", "}", "}", "7", "{", "{", "/", "x", "}", "}", "{", "{", "/", "b", "a", "s", "e", "}", "}">>,
   <<"{", "{", "$", "i", "d", "}", "}", "m", "{", "{", "/", "i", "d", "}", "}">>,
   <<"{", "{", "#", "a", "}", "}", "{", "{", "<", "b", "a", "s", "e", "}", "}", "{", "{", "$", "i", "d", "}", "}", "{", "{", ".", "}", "}", "{", "{", "/", "i", "d", "}", "}", "{", "{", "/", "b", "a", "s", "e", "}", "}", "{", "{", "/", "a", "}", "}">>}

BaseTemplates ==
  {DefaultExample,
   <<"{", "{", "$", "i", "d", "}", "}", "1", "2", "3", "{", "{", "/", "i", "d", "}", "}", "{", "{", "$", "x", "}", "}", "0", "{", "{", "/", "x", "}", "}">>,
   <<"{", "{", "$", "i", "d", "}", "}", "{", "{", "$", "x", "}", "}", "1", "{", "{", "/", "x", "}", "}", "{", "{", "/", "i", "d", "}", "}">>}

MultilineArgumentExample == <<" ", "{", "{", "<", "a", "}", "}", "\n", " ", " ", "{", "{", "$", "i", "d", "}", "}", "\n", " ", " ", "1", "2", "3", "\n", " ", " ", "4", "5", "6", "\n", "{", "{", "/", "i", "d", "}", "}", "\n", " ", "{", "{", "/", "a", "}", "}", "\n">>

StandaloneArgumentExample == <<" ", "{", "{", "<", "a", "}", "}", "\n", " ", " ", "{", "{", "$", "b", "}", "}", "\n", " ", " ", " ", "1", "2", "3", "\n", " ", " ", " ", "4", "5", "6", "\n", " ", " ", "{", "{", "/", "b", "}", "}", "\n", " ", "{", "{", "/", "a", "}", "}", "\n">>

StandaloneParameterExample == <<"<", "d", "i", "v", ">", "\n", " ", "{", "{", "$", "b", "}", "}", "{", "{", "/", "b", "}", "}", "\n", "<", "/", "d", "i", "v", ">", "\n">>

\* The cases of the test suite Extra.
ExtraScenarios ==
  {Scenario(ParentExample, LoaderOf(<<<<KeyA, ParameterExample>>>>), MapValue(<<>>)),
   Scenario(MultilineArgumentExample, LoaderOf(<<<<KeyA, ParameterExample>>>>), MapValue(<<>>)),
   Scenario(StandaloneArgumentExample, LoaderOf(<<<<KeyA, StandaloneParameterExample>>>>), MapValue(<<>>))}

ParentScenarios ==
  {Scenario(s, LoaderOf(<<<<NameMid, x>>, <<NameBase, y>>>>),
            MapValue(<<Field(KeyA, ListValue(<<StringValue(<<"u">>), StringValue(<<"v">>)>>))>>)) :
     s \in ParentTemplates, x \in MidTemplates, y \in BaseTemplates}
  \cup ExtraScenarios

ParentBodyExample == <<"{", "{", "<", "b", "a", "s", "e", "}", "}", "x", "{", "{", "a", "}", "}", "{", "{", "$", "i", "d", "}", "}", "4", "5", "6", "{", "{", "/", "i", "d", "}", "}", "{", "{", "#", "a", "}", "}", "{", "{", "$", "i", "d", "}", "}", "9", "{", "{", "/", "i", "d", "}", "}", "{", "{", "/", "a", "}", "}", "{", "{", ">", "m", "i", "d", "}", "}", "{", "{", "/", "b", "a", "s", "e", "}", "}">>

\* A parent tag with text, an interpolation, a section and a partial between
\* its blocks.
ParentBodyScenarios ==
  {Scenario(ParentBodyExample,
            LoaderOf(<<<<NameMid, <<"{", "{", "$", "i", "d", "}", "}", "m", "{", "{", "/", "i", "d", "}", "}">>>>, <<NameBase, y>>>>),
            MapValue(<<Field(KeyA, ListValue(<<StringValue(<<"u">>), StringValue(<<"v">>)>>))>>)) :
     y \in BaseTemplates}

PlainPartialExample == <<" ", " ", "{", "{", ">", "b", "a", "s", "e", "}", "}", "\n", "{", "{", "$", "i", "d", "}", "}", "m", "{", "{", "/", "i", "d", "}", "}">>

\* A template that overrides a block of mid, where mid includes base with a
\* plain partial tag.
PlainPartialScenarios ==
  {Scenario(NestedOverrideExample, LoaderOf(<<<<NameMid, PlainPartialExample>>, <<NameBase, y>>>>),
            MapValue(<<>>)) :
     y \in BaseTemplates}

EscapeExample == <<"{", "{", "a", "}", "}", "|", "{", "{", "{", "a", "}", "}", "}", "|", "{", "{", "&", "a", "}", "}">>

\* Texts with the characters html.EscapeString replaces.
EscapeTexts ==
  {<<"&", "\"", "<", ">", "'">>, <<"x", "<", "y">>, <<"&", "a", "m", "p", ";">>, <<"'", "'">>, <<"x">>, <<>>}

EscapeScenarios ==
  {Scenario(EscapeExample, LoaderOf(<<>>), MapValue(<<Field(KeyA, StringValue(s))>>)) : s \in EscapeTexts}

RenderScenarios ==
  SectionScenarios \cup PartialScenarios \cup ParentScenarios \cup EscapeScenarios
  \cup ParentBodyScenarios \cup PlainPartialScenarios

VARIABLES parser, lookup, compiler, machine

vars == <<parser, lookup, compiler, machine>>

\* No call of parse, no call of Lookup, no call of compileGo, and no call of
\* the generated code.
ParserIdle == [InitParser(<<>>) EXCEPT !.pc = "idle"]

LookupIdle == [contextStack |-> <<>>, path |-> <<>>, pc |-> "idle", v |-> Invalid, text |-> <<>>]

CompilerIdle ==
  [pc |-> "idle", templateName |-> <<>>, source |-> <<>>, load |-> <<>>, data |-> Invalid,
   parsed |-> ParserIdle, g |-> InitGather(<<>>), output |-> NoOutput("", InitGather(<<>>)),
   runs |-> <<>>]

InitParse ==
  /\ parser \in {InitParser(src) : src \in Templates}
  /\ lookup = LookupIdle
  /\ compiler = CompilerIdle
  /\ machine = MachineIdle

LineBeginAct ==
  /\ parser.pc = "line" /\ Len(parser.s) > 0 /\ parser' = LineBegin(parser)
  /\ UNCHANGED <<lookup, compiler, machine>>

TagStepAct ==
  /\ parser.pc = "tag" /\ parser' = TagStep(parser)
  /\ UNCHANGED <<lookup, compiler, machine>>

LineEndAct ==
  /\ parser.pc = "eol" /\ parser' = LineEnd(parser)
  /\ UNCHANGED <<lookup, compiler, machine>>

FinishAct ==
  /\ parser.pc = "line" /\ Len(parser.s) = 0 /\ parser' = Finish(parser)
  /\ UNCHANGED <<lookup, compiler, machine>>

NextParse == LineBeginAct \/ TagStepAct \/ LineEndAct \/ FinishAct

SpecParse == InitParse /\ [][NextParse]_vars

\* A call Lookup(contextStack, path) of the generated code, and ToString of
\* what it returns.
InitLookup ==
  /\ lookup \in {[LookupIdle EXCEPT !.contextStack = st, !.path = pa, !.pc = "call"] :
                   st \in ContextStacks, pa \in Paths}
  /\ parser = ParserIdle
  /\ compiler = CompilerIdle
  /\ machine = MachineIdle

LookupAct ==
  /\ lookup.pc = "call"
  /\ lookup' = [lookup EXCEPT !.v = Lookup(lookup.contextStack, lookup.path), !.pc = "found"]
  /\ UNCHANGED <<parser, compiler, machine>>

ToStringAct ==
  /\ lookup.pc = "found"
  /\ lookup' = [lookup EXCEPT !.text = ToString(lookup.v), !.pc = "text"]
  /\ UNCHANGED <<parser, compiler, machine>>

NextLookup == LookupAct \/ ToStringAct

SpecLookup == InitLookup /\ [][NextLookup]_vars

\* A call compileGo(packageName, templateName, source, load), in three steps:
\* parse, gatherPartials, and the printing of the functions. runs has what the
\* calls so far returned.
CompilerReady(templateName, source, load, data) ==
  [CompilerIdle EXCEPT !.pc = "parse", !.templateName = templateName, !.source = source,
                       !.load = load, !.data = data]

\* The calls of compileGo on the same arguments that are followed.
MaxRuns == 2

ParseSourceAct ==
  /\ compiler.pc = "parse"
  /\ compiler' =
       IF parse(compiler.source).pc # "done"
       THEN [compiler EXCEPT !.parsed = parse(compiler.source), !.pc = "done",
                             !.output = NoOutput("parse", InitGather(compiler.templateName)),
                             !.runs = Append(@, NoOutput("parse", InitGather(compiler.templateName)))]
       ELSE [compiler EXCEPT !.parsed = parse(compiler.source), !.pc = "gather"]
  /\ UNCHANGED <<parser, lookup, machine>>

GatherPartialsAct ==
  /\ compiler.pc = "gather"
  /\ compiler' = [compiler EXCEPT !.g = gatherPartials(InitGather(compiler.templateName),
                                                       compiler.parsed.result, compiler.load),
                                  !.pc = "emit"]
  /\ UNCHANGED <<parser, lookup, machine>>

EmitAct ==
  /\ compiler.pc = "emit"
  /\ compiler' =
       [compiler EXCEPT !.output = compileGathered(PackageName, compiler.templateName,
                                                   compiler.parsed.result, compiler.g),
                        !.runs = Append(@, compileGathered(PackageName, compiler.templateName,
                                                           compiler.parsed.result, compiler.g)),
                        !.pc = "done"]
  /\ UNCHANGED <<parser, lookup, machine>>

CompileAgainAct ==
  /\ compiler.pc = "done"
  /\ Len(compiler.runs) < MaxRuns
  /\ compiler' = [compiler EXCEPT !.pc = "parse", !.parsed = ParserIdle,
                                  !.g = InitGather(<<>>),
                                  !.output = NoOutput("", InitGather(<<>>))]
  /\ UNCHANGED <<parser, lookup, machine>>

InitCompile ==
  /\ compiler \in {CompilerReady(n, s, l, Invalid) :
                     n \in TemplateNames, s \in CompileSources, l \in Loaders}
  /\ parser = ParserIdle
  /\ lookup = LookupIdle
  /\ machine = MachineIdle

NextCompile == ParseSourceAct \/ GatherPartialsAct \/ EmitAct \/ CompileAgainAct

SpecCompile == InitCompile /\ [][NextCompile]_vars

\* compileGo with gatherPartials followed one tag at a time.
GatherCallAct ==
  /\ compiler.pc = "gather"
  /\ compiler' =
       [compiler EXCEPT !.pc = "gathering",
                        !.g = [templateName |-> compiler.templateName, partials |-> <<>>,
                               partialFuncNames |-> <<>>, err |-> "", loaded |-> <<>>,
                               parses |-> <<>>,
                               walks |-> <<walkTags(compiler.parsed.result)>>]]
  /\ UNCHANGED <<parser, lookup, machine>>

\* One turn of the loop of the innermost call of gatherPartials.
GatherTagAct ==
  /\ compiler.pc = "gathering"
  /\ Len(compiler.g.walks) <= MaxDepth
  /\ compiler.g.err = "" /\ compiler.g.walks[Len(compiler.g.walks)] # <<>>
  /\ compiler' = [compiler EXCEPT !.g = gatherStep(compiler.g, compiler.load)]
  /\ UNCHANGED <<parser, lookup, machine>>

\* The return of the innermost call of gatherPartials, at the end of its
\* loop or with an error; the return of the outermost one is that to compileGo.
GatherEndAct ==
  /\ compiler.pc = "gathering"
  /\ Len(compiler.g.walks) <= MaxDepth
  /\ compiler.g.err # "" \/ compiler.g.walks[Len(compiler.g.walks)] = <<>>
  /\ compiler' =
       IF Len(compiler.g.walks) > 1
       THEN [compiler EXCEPT !.g = gatherStep(compiler.g, compiler.load)]
       ELSE [compiler EXCEPT !.pc = "emit",
                             !.g = [templateName |-> compiler.g.templateName,
                                    partials |-> compiler.g.partials,
                                    partialFuncNames |-> compiler.g.partialFuncNames,
                                    err |-> compiler.g.err, loaded |-> compiler.g.loaded,
                                    parses |-> compiler.g.parses]]
  /\ UNCHANGED <<parser, lookup, machine>>

NextGather == ParseSourceAct \/ GatherCallAct \/ GatherTagAct \/ GatherEndAct

SpecGather == InitCompile /\ [][NextGather]_vars

\* A template compiled and its function called: the statements of the
\* generated code, one at a time.
InitRender ==
  /\ compiler \in {CompilerReady(<<"t">>, sc.source, sc.load, sc.data) : sc \in RenderScenarios}
  /\ parser = ParserIdle
  /\ lookup = LookupIdle
  /\ machine = MachineIdle

StartAct ==
  /\ compiler.pc = "done" /\ compiler.output.err = "" /\ machine.pc = "idle"
  /\ machine' = StartMachine(compiler.output.main, compiler.data)
  /\ UNCHANGED <<parser, lookup, compiler>>

\* The statement op is next.
Runs(ops) == machine.pc = "run" /\ CurInstr(machine).op \in ops

Stepped ==
  /\ machine' = MachineStep(machine, compiler.output.units)
  /\ UNCHANGED <<parser, lookup, compiler>>

WriteLiteralAct == Runs({"literal"}) /\ Stepped

WriteIndentAct == Runs({"indent"}) /\ Stepped

WriteValueAct == Runs({"escaped", "raw"}) /\ Stepped

ForEachAct == Runs({"for"}) /\ Stepped

IfFalsyAct == Runs({"ifFalsy"}) /\ Stepped

CallPartialAct == Runs({"call"}) /\ Stepped

BlockAct == Runs({"block"}) /\ Stepped

ParentAct == Runs({"parent"}) /\ Stepped

EndAct == Runs({"end"}) /\ Stepped

NextRender ==
  \/ ParseSourceAct \/ GatherPartialsAct \/ EmitAct \/ StartAct
  \/ WriteLiteralAct \/ WriteIndentAct \/ WriteValueAct \/ ForEachAct \/ IfFalsyAct
  \/ CallPartialAct \/ BlockAct \/ ParentAct \/ EndAct

SpecRender == InitRender /\ [][NextRender]_vars

(***************************************************************************)
(* The tag stream of a template, and what the parser did line by line      *)
(***************************************************************************)

StructuralVerdicts == {"close without open", "mismatch", "unclosed scope"}

\* The tags of s from index i on, cut one after the other under the delimiters
\* in force, with the names of the scopes that are open: "ok", "lexical" for
\* a tag that is malformed, or what the first structural fault is.
RECURSIVE ScanTags(_, _, _, _, _)
ScanTagAt(s, startDelim, endDelim, open, c) ==
  IF c.err # "" THEN "lexical"
  ELSE IF c.b \notin {"!", "="} /\ (c.key = <<>> \/ ~(\A k \in 1..Len(c.key) : ~IsSpaceChar(c.key[k])))
  THEN "lexical"
  ELSE IF c.b = "="
  THEN IF splitSetDelimiterTag(c.key).err # "" THEN "lexical"
       ELSE ScanTags(s, c.tagEnd, splitSetDelimiterTag(c.key).startDelim,
                     splitSetDelimiterTag(c.key).endDelim, open)
  ELSE IF c.b \in {"#", "^", "$", "<"}
  THEN ScanTags(s, c.tagEnd, startDelim, endDelim, Append(open, c.key))
  ELSE IF c.b = "/"
  THEN IF open = <<>> THEN "close without open"
       ELSE IF open[Len(open)] # c.key THEN "mismatch"
       ELSE ScanTags(s, c.tagEnd, startDelim, endDelim, SubSeq(open, 1, Len(open) - 1))
  ELSE ScanTags(s, c.tagEnd, startDelim, endDelim, open)

ScanTags(s, i, startDelim, endDelim, open) ==
  IF nextIndex(s, i, startDelim) < 0
  THEN IF open = <<>> THEN "ok" ELSE "unclosed scope"
  ELSE ScanTagAt(s, startDelim, endDelim, open,
                 cutTag(s, nextIndex(s, i, startDelim), startDelim, endDelim))

TagStreamVerdict(src) == ScanTags(src, 0, defaultStartDelim, defaultEndDelim, <<>>)

StructuralMessages == {"without opening", "mismatched", "unclosed"}

LineComplete(i) == i < Len(parser.lines) \/ parser.pc \in {"line", "done"}

\* The line holds one tag and, around it, whitespace only.
SoleTagLine(l) ==
  /\ Len(l.tags) = 1
  /\ isSpace(Slice(l.text, 0, l.tags[1].tagStart))
  /\ isSpace(From(l.text, l.tags[1].tagEnd))

\* The texts of the literals among the tags a line added, in order.
RECURSIVE LiteralTexts(_)
LiteralTexts(tags) ==
  IF tags = <<>> THEN <<>>
  ELSE IF Head(tags).tt = "literal" THEN <<Head(tags).s>> \o LiteralTexts(Tail(tags))
  ELSE LiteralTexts(Tail(tags))

\* The texts among ts that are not empty, in order.
RECURSIVE NonEmpty(_)
NonEmpty(ts) ==
  IF ts = <<>> THEN <<>>
  ELSE IF Head(ts) = <<>> THEN NonEmpty(Tail(ts)) ELSE <<Head(ts)>> \o NonEmpty(Tail(ts))

\* The text between the end tag that matches the tag of a sole-tag line and
\* the end of that end tag's line.
AfterEndTag(l) ==
  LET e == elementEnd(l.tags[1].key, l.rest, l.tags[1].tagEnd, l.startDelim, l.endDelim)
  IN Slice(l.rest, e.i, e.i + indexNextLine(From(l.rest, e.i)))

\* Parent tags, and block tags that are not directly inside a parent.
IsPairNote(n) == n.b = "<" \/ (n.b = "$" /\ n.top # "parent")

ParseProgressStep ==
  /\ parser'.pc # "panic"
  /\ parser.pc = "line" =>
       /\ Len(parser'.s) <= Len(parser.s)
       /\ parser'.pc \in {"tag", "eol"} => parser'.eol <= Len(parser'.s)
  /\ parser.pc = "tag" /\ parser'.pc = "tag" =>
       /\ parser'.s = parser.s
       /\ parser'.prevEnd > parser.tagStart
       /\ parser'.tagStart >= parser'.prevEnd
       /\ parser'.tagStart < parser'.eol
  /\ parser.pc = "eol" =>
       /\ parser'.pc = "line"
       /\ Len(parser'.s) < Len(parser.s) + Len(parser.lines[Len(parser.lines)].cut)

\* C8: parse never indexes out of range (the scope below the innermost one is
\* read only when there is one), every pass of the tag loop moves past its
\* tag, and every pass of the line loop leaves less input than it found.
C8_ParseProgress == [][ParseProgressStep]_vars

\* A closing tag at the start of a line closed a block without standing
\* alone: the scope below the innermost one was read.
C8_Witness ==
  /\ parser.pc = "done"
  /\ \E i \in 1..Len(parser.lines) :
       /\ parser.lines[i].tags # <<>>
       /\ parser.lines[i].tags[1].b = "/"
       /\ parser.lines[i].tags[1].top = "block"
       /\ parser.lines[i].tags[1].tagStart = 0
       /\ ~parser.lines[i].tags[1].standalone

\* The value at the end of the first n segments of parts, from v.
RECURSIVE PathValue(_, _, _)
PathValue(v, parts, n) ==
  IF n = 0 THEN v ELSE property(PathValue(v, parts, n - 1), parts[n])

\* The frames of the stack in which the key resolves.
ResolvingFrames(st, key) == {i \in 1..Len(st) : IsValid(property(st[i], key))}

Max(S) == CHOOSE x \in S : \A y \in S : y <= x

\* C10: Lookup takes the first segment from the innermost frame in which it
\* resolves and applies the other segments to that value alone; "." is the
\* innermost frame; a path that resolves nowhere is the invalid value, which
\* ToString renders as the empty string, and there is no panic.
C10_LookupInnermostFirst ==
  lookup.pc \in {"found", "text"} =>
    LET st == lookup.contextStack
        parts == Split(lookup.path)
        F == ResolvingFrames(st, parts[1])
    IN /\ lookup.v.kind # "panic"
       /\ lookup.path = <<".">> => lookup.v = st[Len(st)]
       /\ lookup.path # <<".">> /\ F # {} =>
            lookup.v = PathValue(property(st[Max(F)], parts[1]), Tail(parts), Len(parts) - 1)
       /\ lookup.path # <<".">> /\ F = {} => ~IsValid(lookup.v)
       /\ lookup.pc = "text" /\ ~IsValid(lookup.v) => lookup.text = <<>>

\* A path of two segments whose first segment resolves in both frames and
\* whose second resolves only under the outer one: the result is invalid and
\* renders as the empty string.
C10_Witness ==
  /\ lookup.pc = "text"
  /\ lookup.path = <<"a", ".", "b">>
  /\ Len(lookup.contextStack) = 2
  /\ IsValid(PathValue(lookup.contextStack[1], Split(lookup.path), 2))
  /\ IsValid(property(lookup.contextStack[2], KeyA))
  /\ ~IsValid(lookup.v)
  /\ lookup.text = <<>>

(***************************************************************************)
(* Interpolation tags and the text around them                             *)
(***************************************************************************)

IsInterpolation(n) == n.b \in {"", "&"}

\* The text between tag k of the line and the tag before it, or the start of
\* the line as the parser reads it, with the indentation of the enclosing
\* blocks stripped.
LeadOf(l, k) == Slice(l.rest, IF k = 1 THEN 0 ELSE l.tags[k - 1].tagEnd, l.tags[k].tagStart)

\* The text between tag k of the line and the end of its line.
TrailOf(l, k) ==
  Slice(l.rest, l.tags[k].tagEnd, l.tags[k].tagEnd + indexNextLine(From(l.rest, l.tags[k].tagEnd)))

\* The text before tag k as it stands in the source.
SourceLeadOf(l, k) == IF k = 1 THEN l.cut \o LeadOf(l, k) ELSE LeadOf(l, k)

\* SectionExample is a single section a with the line of b as its body, and
\* its function writes "  X\n" when a is truthy and b is "X".
SectionExampleRenders ==
  parser.src = SectionExample /\ parser.pc = "done" =>
    /\ parser.result =
         <<[Tag("section", KeyA, <<>>) EXCEPT !.body =
              <<Tag("indentPoint", <<>>, <<>>), Tag("literal", <<" ", " ">>, <<>>),
                Tag("variable", KeyB, <<>>), Tag("literal", <<"\n">>, <<>>)>>]>>
    /\ \A a \in {BoolValue(TRUE), StringValue(<<"y">>), FloatValue(1),
                 ListValue(<<MapValue(<<>>)>>)} :
         Render(compileParsed(PackageName, <<"t">>, parser, LoaderOf(<<>>)),
                MapValue(<<Field(KeyA, a), Field(KeyB, StringValue(<<"X">>))>>))
           = <<" ", " ", "X", "\n">>

\* C3 as stated: an interpolation tag is never standalone; the text before it
\* on its source line and the rest of the line after it, line terminator
\* included, are added as Literals; and SectionExample renders "  X\n".
C3_InterpolationKeepsLine ==
  /\ \A i \in 1..Len(parser.lines) : \A k \in 1..Len(parser.lines[i].tags) :
       IsInterpolation(parser.lines[i].tags[k]) =>
         /\ ~parser.lines[i].tags[k].standalone
         /\ SourceLeadOf(parser.lines[i], k) # <<>> =>
              \E j \in 1..Len(parser.lines[i].added) :
                parser.lines[i].added[j] = Tag("literal", SourceLeadOf(parser.lines[i], k), <<>>)
         /\ k = Len(parser.lines[i].tags) /\ LineComplete(i) /\ TrailOf(parser.lines[i], k) # <<>> =>
              parser.lines[i].added[Len(parser.lines[i].added)]
                = Tag("literal", TrailOf(parser.lines[i], k), <<>>)
  /\ SectionExampleRenders

\* C3, amended: an interpolation tag is never standalone; the text before it
\* that is left of its line once the indentation of the enclosing blocks is
\* stripped, and the rest of the line after it, line terminator included, when
\* it is the last tag of its line, are added as Literals; and SectionExample
\* renders "  X\n".
C3_InterpolationKeepsDedentedLine ==
  /\ \A i \in 1..Len(parser.lines) : \A k \in 1..Len(parser.lines[i].tags) :
       IsInterpolation(parser.lines[i].tags[k]) =>
         /\ ~parser.lines[i].tags[k].standalone
         /\ LeadOf(parser.lines[i], k) # <<>> =>
              \E j \in 1..Len(parser.lines[i].added) :
                parser.lines[i].added[j] = Tag("literal", LeadOf(parser.lines[i], k), <<>>)
         /\ k = Len(parser.lines[i].tags) /\ LineComplete(i) /\ TrailOf(parser.lines[i], k) # <<>> =>
              parser.lines[i].added[Len(parser.lines[i].added)]
                = Tag("literal", TrailOf(parser.lines[i], k), <<>>)
  /\ SectionExampleRenders

\* SectionExample is parsed: the line of b has an interpolation tag alone on
\* it, with whitespace before it and a line terminator after it.
C3_Witness ==
  /\ parser.src = SectionExample /\ parser.pc = "done"
  /\ \E i \in 1..Len(parser.lines) :
       /\ Len(parser.lines[i].tags) = 1
       /\ IsInterpolation(parser.lines[i].tags[1])
       /\ LeadOf(parser.lines[i], 1) = <<" ", " ">>
       /\ TrailOf(parser.lines[i], 1) = <<"\n">>

(***************************************************************************)
(* The partials of a template and the functions made for them              *)
(***************************************************************************)

\* The tree of the partial a name stands for.
TreeOf(load, name) == parse(Load(load, name).text).result

\* The names of partials in the order they are first met when the tags are
\* read in pre-order and each partial is read, at the first tag that names it,
\* before the tags that follow that tag.
RECURSIVE Encounters(_, _, _)
Encounters(walk, seen, load) ==
  IF walk = <<>> THEN <<>>
  ELSE IF Head(walk).tt \in {"partial", "parent"} /\ Head(walk).s \notin seen
  THEN <<Head(walk).s>>
       \o Encounters(walkTags(TreeOf(load, Head(walk).s)) \o Tail(walk),
                     seen \cup {Head(walk).s}, load)
  ELSE Encounters(Tail(walk), seen, load)

\* The names of the functions the statements call, in the order of the text.
RECURSIVE CallsOf(_)
RECURSIVE CallsOfEntries(_)
CallsOfEntries(entries) ==
  IF entries = <<>> THEN <<>>
  ELSE CallsOf(Head(entries).body) \o CallsOfEntries(Tail(entries))

CallsOf(code) ==
  IF code = <<>> THEN <<>>
  ELSE (CASE Head(code).op = "call" -> <<Head(code).fn>>
          [] Head(code).op = "parent" -> <<Head(code).fn>> \o CallsOfEntries(Head(code).entries)
          [] OTHER -> CallsOf(Head(code).body))
       \o CallsOf(Tail(code))

\* The names of the partials the tags refer to where a call is generated: a
\* parent tag's children other than blocks generate nothing.
RECURSIVE CallSites(_, _)
CallSites(tags, inParent) ==
  IF tags = <<>> THEN <<>>
  ELSE (IF inParent /\ Head(tags).tt # "block" THEN <<>>
        ELSE IF Head(tags).tt = "partial" THEN <<Head(tags).s>>
        ELSE IF Head(tags).tt = "parent" THEN <<Head(tags).s>> \o CallSites(Head(tags).body, TRUE)
        ELSE CallSites(Head(tags).body, FALSE))
       \o CallSites(Tail(tags), inParent)

Compiled == compiler.pc = "done" /\ compiler.output.err = ""

EncounteredNames == Encounters(walkTags(compiler.parsed.result), {}, compiler.load)

IdentifierOf(name) == NameOf(compiler.output.partialFuncNames, name)

\* C5: the names of partials whose trees are equal have one function between
\* them, names whose trees differ have different ones, there are as many
\* functions as there are different trees, each is the code of its tree, and
\* every tag that refers to a partial calls the function of its name.
C5_OneUnitPerTree ==
  Compiled =>
    LET names == EncounteredNames
        units == compiler.output.units
    IN /\ \A i, j \in 1..Len(names) :
            (TreeOf(compiler.load, names[i]) = TreeOf(compiler.load, names[j]))
              <=> (IdentifierOf(names[i]) = IdentifierOf(names[j]))
       /\ Len(units) = Cardinality({TreeOf(compiler.load, names[i]) : i \in 1..Len(names)})
       /\ \A i \in 1..Len(names) :
            Cardinality({u \in 1..Len(units) : units[u].name = IdentifierOf(names[i])}) = 1
       /\ \A u \in 1..Len(units) : \E i \in 1..Len(names) :
            /\ units[u].name = IdentifierOf(names[i])
            /\ CallsOf(units[u].code)
                 = [k \in 1..Len(CallSites(TreeOf(compiler.load, names[i]), FALSE)) |->
                      IdentifierOf(CallSites(TreeOf(compiler.load, names[i]), FALSE)[k])]
       /\ CallsOf(compiler.output.main)
            = [k \in 1..Len(CallSites(compiler.parsed.result, FALSE)) |->
                 IdentifierOf(CallSites(compiler.parsed.result, FALSE)[k])]

\* A template is compiled that refers to three partials by name, two of them
\* with the same tree: two functions are made.
C5_Witness ==
  /\ Compiled
  /\ Len(compiler.output.partialFuncNames) = 3
  /\ Len(compiler.output.units) = 2
  /\ \E i, j \in 1..3 :
       /\ i # j
       /\ compiler.output.partialFuncNames[i].fn = compiler.output.partialFuncNames[j].fn
       /\ Load(compiler.load, compiler.output.partialFuncNames[i].name).text
            = Load(compiler.load, compiler.output.partialFuncNames[j].name).text

\* The index of the tree of the k-th name met among the different trees, in
\* the order they are first met.
FirstIndex(names, k) ==
  LET first == Min({j \in 1..k : TreeOf(compiler.load, names[j]) = TreeOf(compiler.load, names[k])})
  IN Cardinality({TreeOf(compiler.load, names[j]) : j \in 1..(first - 1)})

Rendered == machine.pc = "done"

\* The scenario the template of which is source and whose partials mid and
\* base are as given has rendered.
RenderedParent(source, mid, base) ==
  /\ Rendered
  /\ compiler.source = source
  /\ Load(compiler.load, NameMid).text = mid
  /\ Load(compiler.load, NameBase).text = base

\* Default "123" and override "456" render "456", also when the template
\* overrides through mid, which overrides with "789"; with no override from
\* the template, the override of mid is rendered.
OverrideExamples ==
  /\ RenderedParent(OverrideExample, MidExample, DefaultExample)
       => machine.out = <<"4", "5", "6">>
  /\ RenderedParent(NestedOverrideExample, MidExample, DefaultExample)
       => machine.out = <<"4", "5", "6">>
  /\ RenderedParent(<<"{", "{", "<", "m", "i", "d", "}", "}", "{", "{", "/", "m", "i", "d", "}", "}">>,
                    MidExample, DefaultExample)
       => machine.out = <<"7", "8", "9">>
  /\ RenderedParent(<<"{", "{", ">", "m", "i", "d", "}", "}">>, DefaultExample, DefaultExample)
       => machine.out = <<"1", "2", "3">>

\* The last of the entries of a parent statement that has the name.
LastEntry(entries, name) ==
  entries[CHOOSE i \in 1..Len(entries) :
            /\ entries[i].name = name
            /\ \A j \in (i + 1)..Len(entries) : entries[j].name # name]

\* A block statement calls the override of its name, with the context stack,
\* when the table in scope has one, and runs its body when it has none. A
\* parent statement calls with a table that has every entry of the table in
\* scope as it is, and its own entries under the names the table in scope has
\* no entry for.
OverrideStep ==
  /\ Runs({"block"}) =>
       IF HasBlock(CurCall(machine).blocks, CurInstr(machine).s)
       THEN /\ Len(machine'.calls) = Len(machine.calls) + 1
            /\ CurCont(machine').code = BlockOf(CurCall(machine).blocks, CurInstr(machine).s).code
            /\ CurCall(machine').stack = CurCall(machine).stack
            /\ machine'.out = machine.out
       ELSE /\ Len(machine'.calls) = Len(machine.calls)
            /\ CurCont(machine').code = CurInstr(machine).body
  /\ Runs({"parent"}) =>
       /\ Len(machine'.calls) = Len(machine.calls) + 1
       /\ \A i \in 1..Len(CurCall(machine).blocks) :
            /\ HasBlock(CurCall(machine').blocks, CurCall(machine).blocks[i].name)
            /\ BlockOf(CurCall(machine').blocks, CurCall(machine).blocks[i].name)
                 = CurCall(machine).blocks[i]
       /\ \A i \in 1..Len(CurInstr(machine).entries) :
            /\ HasBlock(CurCall(machine').blocks, CurInstr(machine).entries[i].name)
            /\ ~HasBlock(CurCall(machine).blocks, CurInstr(machine).entries[i].name) =>
                 BlockOf(CurCall(machine').blocks, CurInstr(machine).entries[i].name).code
                   = LastEntry(CurInstr(machine).entries, CurInstr(machine).entries[i].name).body

\* C6: a block of the base renders the caller's override of its name instead
\* of its default body (default "123", override "456" renders "456"), and an
\* override in the table in scope replaces the entry a parent tag makes for
\* the same name.
C6_OverridePrecedence == []OverrideExamples /\ [][OverrideStep]_vars

\* The template that overrides id through mid has rendered "456": the parent
\* tag of mid ran with the template's override in scope and its own entry for
\* the same name.
C6_Witness ==
  /\ RenderedParent(NestedOverrideExample, MidExample, DefaultExample)
  /\ machine.out = <<"4", "5", "6">>

\* The values the claim lists as falsy, lists that are not empty, and the
\* other values that are truthy.
ListedFalsy(v) ==
  \/ resolve(v).kind = "invalid"
  \/ resolve(v).kind = "bool" /\ ~resolve(v).b
  \/ resolve(v).kind = "string" /\ resolve(v).s = <<>>
  \/ resolve(v).kind = "list" /\ resolve(v).items = <<>>

NonEmptyList(v) == resolve(v).kind = "list" /\ resolve(v).items # <<>>

OtherTruthy(v) ==
  \/ resolve(v).kind = "bool" /\ resolve(v).b
  \/ resolve(v).kind = "string" /\ resolve(v).s # <<>>
  \/ resolve(v).kind \in {"int", "float"} /\ resolve(v).n # 0 /\ ~resolve(v).b
  \/ resolve(v).kind \in {"map", "struct"}

RECURSIVE AllLinesStart(_, _)
AllLinesStart(text, prefix) ==
  IF text = <<>> THEN TRUE
  ELSE /\ HasPrefix(text, prefix)
       /\ AllLinesStart(From(text, indexNextLine(text)), prefix)

\* The call is one of a partial's function (not of the template's, and not of
\* an override).
IsPartialCall(c) == c.unit # <<>> /\ c.unit[1] = "_"

\* The function the machine is in is about to return.
Returning == machine.pc = "run" /\ Len(CurCall(machine).conts) = 1 /\ AtEnd(machine)

\* The statements write text and the indent only: the partial has no tags.
TextOnly(code) == \A i \in 1..Len(code) : code[i].op \in {"literal", "indent"}

\* What the current call has written.
Written == From(machine.out, CurCall(machine).mark)

\* A partial tag records as its indent the whitespace before it on its line,
\* as the parser reads the line, when it is standalone, and nothing when it is
\* not; parsed is a template parsed.
PartialIndentRecorded(parsed) ==
  \A i \in 1..Len(parsed.lines) : \A k \in 1..Len(parsed.lines[i].tags) :
    parsed.lines[i].tags[k].b = ">" =>
      /\ parsed.lines[i].tags[k].indent
           = IF parsed.lines[i].tags[k].standalone THEN LeadOf(parsed.lines[i], k) ELSE <<>>
      /\ \E j \in 1..Len(parsed.lines[i].added) :
           parsed.lines[i].added[j]
             = Tag("partial", parsed.lines[i].tags[k].key, parsed.lines[i].tags[k].indent)

\* The function of a partial runs with the caller's indent followed by the
\* indent of the tag, p = "x\ny\n" under "  {{>p}}\n" renders "  x\n  y\n",
\* and the tags record their indent as said.
PartialIndentPassed ==
  /\ \A i \in 1..Len(machine.calls) :
       IsPartialCall(machine.calls[i]) =>
         machine.calls[i].indent = machine.calls[i].callerIndent \o machine.calls[i].tagIndent
  /\ Rendered /\ compiler.source = PartialExample
       /\ Load(compiler.load, NameP).text = LinesExample
       => machine.out = <<" ", " ", "x", "\n", " ", " ", "y", "\n">>
  /\ compiler.pc = "done" =>
       /\ PartialIndentRecorded(compiler.parsed)
       /\ PartialIndentRecorded(parse(Load(compiler.load, NameP).text))
       /\ PartialIndentRecorded(parse(Load(compiler.load, NameQ).text))

\* C4 as stated: every line the function of a partial writes starts with the
\* caller's running indent followed by the whitespace before the tag.
C4_EveryLineIndented ==
  /\ PartialIndentPassed
  /\ Returning /\ IsPartialCall(CurCall(machine)) =>
       AllLinesStart(Written, CurCall(machine).callerIndent \o CurCall(machine).tagIndent)

\* C4, amended: the function of a partial runs with the caller's running
\* indent followed by the indent of the tag as its running indent, and every
\* line a partial made of text only writes starts with it.
C4_IndentPointsIndented ==
  /\ PartialIndentPassed
  /\ Returning /\ IsPartialCall(CurCall(machine)) /\ TextOnly(CurCont(machine).code) =>
       AllLinesStart(Written, CurCall(machine).callerIndent \o CurCall(machine).tagIndent)

\* The partial "x\ny\n" is about to return to a partial that was called from
\* an indented line and calls it from an indented line: it has written two
\* lines with the two indents.
C4_Witness ==
  /\ Returning /\ IsPartialCall(CurCall(machine)) /\ TextOnly(CurCont(machine).code)
  /\ Len(machine.calls) = 3
  /\ CurCall(machine).callerIndent = <<" ">>
  /\ CurCall(machine).tagIndent = <<" ">>
  /\ Written = <<" ", " ", "x", "\n", " ", " ", "y", "\n">>

\* The values IsFalsyOrEmptyList is documented to report: invalid, nil, false,
\* an empty string and an empty list, pointers and interfaces dereferenced.
NamedFalsy(v) == ListedFalsy(v) \/ resolve(v).kind = "nil"

\* A number that is zero or not a number.
ZeroNumber(v) ==
  resolve(v).kind \in {"int", "float"} /\ (resolve(v).n = 0 \/ resolve(v).b)

\* The if statements the generated code has run: the body of
\* if m.IsFalsyOrEmptyList(v) ran exactly when the function returned true.
FalsyTests == {i \in 1..Len(machine.log) : machine.log[i].op = "ifFalsy"}

Loops == {i \in 1..Len(machine.log) : machine.log[i].op = "for" /\ machine.log[i].done}

RECURSIVE WithEntities(_, _, _)
WithEntities(s, quot, apos) ==
  IF s = <<>> THEN <<>>
  ELSE (IF Head(s) = "&" THEN <<"&", "a", "m", "p", ";">>
        ELSE IF Head(s) = "<" THEN <<"&", "l", "t", ";">>
        ELSE IF Head(s) = ">" THEN <<"&", "g", "t", ";">>
        ELSE IF Head(s) = "\"" THEN quot
        ELSE IF Head(s) = "'" THEN apos
        ELSE <<Head(s)>>) \o WithEntities(Tail(s), quot, apos)

\* The text of the string the data has under a.
TextOfA == FieldOf(compiler.data, KeyA).s

\* The template {{a}}|{{{a}}}|{{&a}}, once rendered, has written the string a
\* as its text with the entities, then twice as it is.
EscapeExampleRenders(quot, apos) ==
  Rendered /\ compiler.source = EscapeExample =>
    machine.out = WithEntities(TextOfA, quot, apos) \o <<"|">> \o TextOfA \o <<"|">> \o TextOfA

\* A statement of an escaped variable that runs on a string appends its text
\* with the entities, one of a raw variable the text as it is.
EscapeStep(quot, apos) ==
  WriteValueAct /\ Lookup(CurCall(machine).stack, CurInstr(machine).s).kind = "string" =>
    machine'.out = machine.out \o
      (IF CurInstr(machine).op = "escaped"
       THEN WithEntities(Lookup(CurCall(machine).stack, CurInstr(machine).s).s, quot, apos)
       ELSE Lookup(CurCall(machine).stack, CurInstr(machine).s).s)

\* C11 as stated: a value rendered through an escaped Variable has each of
\* & < > " ' replaced by its named entity (&amp; &lt; &gt; &quot; &apos;), and
\* rendered through a RawVariable it is emitted verbatim.
C11_NamedEntities ==
  /\ []EscapeExampleRenders(<<"&", "q", "u", "o", "t", ";">>, <<"&", "a", "p", "o", "s", ";">>)
  /\ [][EscapeStep(<<"&", "q", "u", "o", "t", ";">>, <<"&", "a", "p", "o", "s", ";">>)]_vars

\* C11, amended: a value rendered through an escaped Variable has & < >
\* replaced by &amp; &lt; &gt; and the quotes " ' by the numeric entities
\* &#34; &#39;, and rendered through a RawVariable it is emitted verbatim.
C11_NumericQuoteEntities ==
  /\ []EscapeExampleRenders(<<"&", "#", "3", "4", ";">>, <<"&", "#", "3", "9", ";">>)
  /\ [][EscapeStep(<<"&", "#", "3", "4", ";">>, <<"&", "#", "3", "9", ";">>)]_vars

\* The template has rendered the text of the five characters.
C11_Witness ==
  /\ Rendered /\ compiler.source = EscapeExample
  /\ TextOfA = <<"&", "\"", "<", ">", "'">>
  /\ Len(machine.out) = 23 + 1 + 5 + 1 + 5

\* The words of a name: what stands between its underscores.
RECURSIVE WordsOf(_)
WordsOf(s) ==
  IF IndexChar(s, "_") < 0 THEN <<s>>
  ELSE <<Slice(s, 0, IndexChar(s, "_"))>> \o WordsOf(From(s, IndexChar(s, "_") + 1))

\* The name is made of lower-case words with one underscore between them.
IsLowerSnake(s) ==
  \A i \in 1..Len(WordsOf(s)) :
    /\ WordsOf(s)[i] # <<>>
    /\ \A k \in 1..Len(WordsOf(s)[i]) : \E l \in 1..26 : LowerLetters[l] = WordsOf(s)[i][k]

\* The word with its first letter as a capital.
Capitalised(w) ==
  <<UpperLetters[CHOOSE l \in 1..26 : LowerLetters[l] = w[1]]>> \o Tail(w)

\* C18: for a template named with lower-case words separated by underscores,
\* the function compileGo generates for the template is named by the words in
\* order, each with its first letter a capital, with no underscore; foo_bar
\* gives FooBar.
C18_UpperCamelName ==
  compiler.pc = "done" /\ compiler.output.err = "" /\ IsLowerSnake(compiler.templateName) =>
    /\ compiler.output.name = Concat([i \in 1..Len(WordsOf(compiler.templateName)) |->
                                        Capitalised(WordsOf(compiler.templateName)[i])])
    /\ \A k \in 1..Len(compiler.output.name) : compiler.output.name[k] # "_"
    /\ compiler.templateName = <<"f", "o", "o", "_", "b", "a", "r">> =>
         compiler.output.name = <<"F", "o", "o", "B", "a", "r">>

\* compileGo has generated the function of the template foo_bar.
C18_Witness ==
  /\ compiler.pc = "done" /\ compiler.output.err = ""
  /\ compiler.templateName = <<"f", "o", "o", "_", "b", "a", "r">>
  /\ compiler.output.name = <<"F", "o", "o", "B", "a", "r">>

(***************************************************************************)
(* The calls of the loader and of parse in a compilation                   *)
(***************************************************************************)

\* The tags of the template and of its partials that refer to name.
RECURSIVE RefsIn(_, _)
RefsIn(walk, name) ==
  IF walk = <<>> THEN 0
  ELSE (IF Head(walk).tt \in {"partial", "parent"} /\ Head(walk).s = name THEN 1 ELSE 0)
       + RefsIn(Tail(walk), name)

\* C17: in a compilation that succeeds the loader is called and the source it
\* returns is parsed exactly once for each name of a partial or parent that the
\* template refers to, directly or through partials at any depth, however many
\* tags refer to the name, and the calls are in the order in which a pre-order
\* reading of the tags first meets the names.
C17_LoadedOncePreOrder ==
  Compiled =>
    /\ compiler.output.loaded = EncounteredNames
    /\ compiler.output.parses = EncounteredNames
    /\ \A i, j \in 1..Len(compiler.output.loaded) :
         compiler.output.loaded[i] = compiler.output.loaded[j] => i = j
    /\ \A k \in 1..Len(walkTags(compiler.parsed.result)) :
         walkTags(compiler.parsed.result)[k].tt \in {"partial", "parent"} =>
           \E i \in 1..Len(compiler.output.loaded) :
             compiler.output.loaded[i] = walkTags(compiler.parsed.result)[k].s
    /\ compiler.source = ParentFirstExample =>
         /\ compiler.output.loaded[1] = NameR
         /\ \E i \in 2..Len(compiler.output.loaded) : compiler.output.loaded[i] = NameP
    /\ \A i \in 1..Len(compiler.output.loaded) :
         \A k \in 1..Len(walkTags(TreeOf(compiler.load, compiler.output.loaded[i]))) :
           walkTags(TreeOf(compiler.load, compiler.output.loaded[i]))[k].tt \in {"partial", "parent"} =>
             \E j \in 1..Len(compiler.output.loaded) :
               compiler.output.loaded[j]
                 = walkTags(TreeOf(compiler.load, compiler.output.loaded[i]))[k].s

\* A template that refers to p twice and whose partial p refers to q, which
\* refers to r, is compiled: three calls of the loader, p, q, r.
C17_Witness ==
  /\ Compiled
  /\ RefsIn(walkTags(compiler.parsed.result), NameP) = 2
  /\ RefsIn(walkTags(compiler.parsed.result), NameQ) = 0
  /\ compiler.output.loaded = <<NameP, NameQ, NameR>>
  /\ compiler.output.parses = <<NameP, NameQ, NameR>>

\* The name cannot be compiled: the loader fails for it, or what it returns
\* does not parse.
FailsToLoad(name) == Load(compiler.load, name).err

FailsToParse(name) == parse(Load(compiler.load, name).text).pc # "done"

\* The places in names, the pre-order reading of the names, where a name fails.
Failures(names) == {i \in 1..Len(names) : FailsToLoad(names[i]) \/ FailsToParse(names[i])}

\* The statements have one compileTagGo returns an error for.
RECURSIVE HasUnhandled(_)
HasUnhandled(code) ==
  \E i \in 1..Len(code) :
    \/ code[i].op = "unhandled"
    \/ HasUnhandled(code[i].body)
    \/ \E k \in 1..Len(code[i].entries) : HasUnhandled(code[i].entries[k].body)

\* C13: compileGo returns an output only when there was no error. When the
\* template does not parse it returns the error and nothing else, and no
\* loader call is made; otherwise, when a name in the pre-order reading fails,
\* it returns the error of the first that fails, with no output, the loader
\* having been called for the names up to that one and parse for the same
\* names, but for the failing one when it is the loader that failed: nothing
\* is loaded or parsed after the failure. When nothing fails there is an
\* output, and no statement in it is one the generator gives an error for.
C13_NoOutputOnError ==
  compiler.pc = "done" =>
    /\ compiler.output.err # "" =>
         /\ compiler.output.main = <<>> /\ compiler.output.units = <<>>
         /\ compiler.output.name = <<>> /\ compiler.output.package = <<>>
    /\ compiler.parsed.pc # "done" =>
         /\ compiler.output.err = "parse"
         /\ compiler.output.loaded = <<>> /\ compiler.output.parses = <<>>
    /\ compiler.parsed.pc = "done" =>
         LET names == EncounteredNames
             fails == Failures(names)
         IN IF fails # {}
            THEN LET first == Min(fails)
                     byLoad == FailsToLoad(names[first])
                 IN /\ compiler.output.err = IF byLoad THEN "load" ELSE "partial"
                    /\ compiler.output.loaded = SubSeq(names, 1, first)
                    /\ compiler.output.parses
                         = SubSeq(names, 1, IF byLoad THEN first - 1 ELSE first)
            ELSE /\ compiler.output.err = ""
                 /\ compiler.output.name # <<>>
                 /\ ~HasUnhandled(compiler.output.main)
                 /\ \A u \in 1..Len(compiler.output.units) :
                      ~HasUnhandled(compiler.output.units[u].code)

\* compileGo has returned the error of the loader for the second of three
\* names the template refers to: the loader was called twice, parse once
\* after the template's own, and there is no output.
C13_Witness ==
  /\ compiler.pc = "done" /\ compiler.output.err = "load"
  /\ RefsIn(walkTags(compiler.parsed.result), NameR) = 1
  /\ compiler.output.loaded = <<NameQ, NameP>>
  /\ compiler.output.parses = <<NameQ>>
  /\ compiler.output.main = <<>>

(***************************************************************************)
(* The line numbers of the errors of parse                                 *)
(***************************************************************************)

\* The line of the source on which the character at index i of what is left
\* of it stands: 1 plus the line breaks before it.
LineOf(i) == 1 + CountNL(parser.src) - CountNL(From(parser.s, i))

\* The tag the parser is at.
TagAt == cutTag(parser.s, parser.tagStart, parser.startDelim, parser.endDelim)

SetDelimiterMessages ==
  {"set delimiter tag empty", "set delimiter tag missing an end delimiter",
   "set delimiter tag has more than two delimiters"}

\* The messages of errors about one tag: the lexical ones and those of a
\* closing tag.
TagMessages ==
  {"unclosed tag", "unclosed comment", "does not end with =", "empty tag", "extra words",
   "without opening", "mismatched"} \cup SetDelimiterMessages

\* Where the tag the error is about is: the tag the parser is at, or, for a set
\* delimiter tag met while the end of a pair tag was looked for, that tag.
OffendingAt ==
  IF parser.err.msg \in SetDelimiterMessages /\ TagAt.b # "="
  THEN elementEnd(TagAt.key, parser.s, TagAt.tagEnd, parser.startDelim, parser.endDelim).at
  ELSE parser.tagStart

\* The innermost open scope.
TopScope == parser.stack[Len(parser.stack)]

\* An error has a line number from 1 on; an error about a tag has the line the
\* tag starts on; a mismatched closing tag also has the line recorded for the
\* innermost scope; an unclosed scope has the line recorded for the innermost
\* scope at the end of the input, and the line of the pair tag when the end of
\* a pair tag is not found. At every tag the line counter is the line the tag
\* starts on.
ErrorLines ==
  /\ parser.pc = "tag" => parser.lineno = LineOf(parser.tagStart)
  /\ parser.pc = "error" =>
       /\ parser.err.line >= 1
       /\ parser.err.msg \in TagMessages => parser.err.line = LineOf(OffendingAt)
       /\ parser.err.msg = "mismatched" =>
            parser.err.opened = TopScope.lineno /\ parser.err.want = TopScope.start.s
       /\ parser.err.msg = "unclosed" =>
            IF Len(parser.s) = 0
            THEN parser.err.line = TopScope.lineno /\ parser.err.key = TopScope.start.s
            ELSE /\ parser.err.line = LineOf(parser.tagStart)
                 /\ parser.err.key = TagAt.key /\ TagAt.b \in {"<", "$"}

\* A scope is recorded with the line its opening tag starts on, and keeps it.
ScopeLines ==
  /\ Len(parser'.stack) > Len(parser.stack) =>
       parser'.stack[Len(parser'.stack)].lineno = LineOf(parser.tagStart)
  /\ \A i \in 1..Len(parser.stack) :
       i <= Len(parser'.stack) => parser'.stack[i].lineno = parser.stack[i].lineno

\* C12: every error of parse has a 1-based line number: an error about a tag
\* (lexical, or a mismatched or unopened closing tag) the line on which the
\* tag starts, line breaks inside earlier comments counted; a mismatched
\* closing tag also the line on which the scope it fails to match was opened;
\* an unclosed scope the line on which the innermost open scope was opened.
C12_ErrorLines == []ErrorLines /\ [][ScopeLines]_vars

(***************************************************************************)
(* Set delimiter tags                                                      *)
(***************************************************************************)

\* The words of s: its longest runs of characters that are not whitespace.
RECURSIVE FieldsFrom(_, _)
FieldsFrom(s, word) ==
  IF s = <<>> THEN IF word = <<>> THEN <<>> ELSE <<word>>
  ELSE IF IsSpaceChar(Head(s))
  THEN (IF word = <<>> THEN <<>> ELSE <<word>>) \o FieldsFrom(Tail(s), <<>>)
  ELSE FieldsFrom(Tail(s), Append(word, Head(s)))

Fields(s) == FieldsFrom(s, <<>>)

\* What follows the open delimiter of the tag the parser is at.
AfterOpen == From(parser.s, parser.tagStart + Len(parser.startDelim))

\* The content of the tag the parser is at: what is between its open delimiter
\* and the first close delimiter after it.
ContentAt == Slice(AfterOpen, 0, Index(AfterOpen, parser.endDelim))

\* The parser is at a set delimiter tag: a tag closed on its line whose
\* content starts with =.
AtSetDelimiterTag ==
  /\ parser.pc = "tag"
  /\ Index(AfterOpen, parser.endDelim) >= 0
  /\ "\n" \notin {ContentAt[i] : i \in 1..Len(ContentAt)}
  /\ HasPrefix(ContentAt, <<"=">>)

\* The words between the two = of the content.
DelimitersAt == Fields(Slice(ContentAt, 1, Len(ContentAt) - 1))

\* The content has a second =, at its end, and two words between the two.
WellFormedAt ==
  Len(ContentAt) >= 2 /\ HasSuffix(ContentAt, <<"=">>) /\ Len(DelimitersAt) = 2

\* A well formed set delimiter tag is accepted and its two words are the
\* delimiters from then on; any other set delimiter tag is an error; the
\* delimiters change at no other step.
SetDelimiterStep ==
  /\ AtSetDelimiterTag /\ WellFormedAt =>
       /\ parser'.pc \notin {"error", "panic"}
       /\ parser'.startDelim = DelimitersAt[1]
       /\ parser'.endDelim = DelimitersAt[2]
  /\ AtSetDelimiterTag /\ ~WellFormedAt =>
       /\ parser'.pc = "error"
       /\ parser'.err.msg \in SetDelimiterMessages \cup {"does not end with ="}
       /\ parser'.result = parser.result
  /\ ~(AtSetDelimiterTag /\ WellFormedAt) =>
       parser'.startDelim = parser.startDelim /\ parser'.endDelim = parser.endDelim

\* Every tag the parser is at starts with the open delimiter in force, at its
\* first occurrence in the line after the tag before, and ends with the close
\* delimiter in force.
ActiveDelimiters ==
  parser.pc = "tag" =>
    /\ HasPrefix(From(parser.s, parser.tagStart), parser.startDelim)
    /\ nextIndex(Slice(parser.s, 0, parser.eol), parser.prevEnd, parser.startDelim)
         = parser.tagStart
    /\ TagAt.err = "" => HasSuffix(Slice(parser.s, parser.tagStart, TagAt.tagEnd), parser.endDelim)

\* C14: parse accepts a set delimiter tag only if its content ends with = and
\* the text between the two = is exactly two whitespace separated words; the
\* two words are then the open and the close delimiter of every tag after it,
\* the old ones being recognised no more; any other form makes parse fail.
C14_SetDelimiters == []ActiveDelimiters /\ [][SetDelimiterStep]_vars

\* A well formed set delimiter tag has been accepted, and the parser is at a
\* tag written with the new delimiters, which are not the default ones.
C14_Witness ==
  /\ parser.pc = "tag"
  /\ parser.startDelim = <<"|">> /\ parser.endDelim = <<"|">>
  /\ TagAt.err = "" /\ TagAt.key = <<"a">>
  /\ \E i \in 1..Len(parser.lines) : \E j \in 1..Len(parser.lines[i].tags) :
       parser.lines[i].tags[j].b = "="

(***************************************************************************)
(* Tags with an empty name                                                 *)
(***************************************************************************)

\* The sigils of the tags that have a name: section, inverted section,
\* parent, partial, block, closing tag, unescaped interpolation.
NameSigils == {"#", "^", "<", ">", "$", "/", "&"}

\* The tag the parser is at is closed on its line.
ClosedOnLine ==
  /\ Index(AfterOpen, parser.endDelim) >= 0
  /\ "\n" \notin {ContentAt[i] : i \in 1..Len(ContentAt)}

\* The tag the parser is at is written with three braces.
TripleBraceAt ==
  /\ parser.startDelim = defaultStartDelim /\ parser.endDelim = defaultEndDelim
  /\ HasPrefix(ContentAt, <<"{">>)
  /\ HasPrefix(From(AfterOpen, Index(AfterOpen, parser.endDelim) + Len(parser.endDelim)), <<"}">>)

\* The parser is at a tag with an empty name: a sigil, or the third brace,
\* followed by nothing or by whitespace only, or an interpolation with
\* nothing or whitespace only in it.
EmptyNameAt ==
  /\ parser.pc = "tag"
  /\ ClosedOnLine
  /\ \/ isSpace(ContentAt)
     \/ ContentAt # <<>> /\ Head(ContentAt) \in NameSigils /\ isSpace(Tail(ContentAt))
     \/ TripleBraceAt /\ isSpace(Tail(ContentAt))

\* A tag with an empty name ends parse with the empty tag error, the tree as
\* it was.
EmptyNameStep ==
  EmptyNameAt =>
    /\ parser'.pc = "error" /\ parser'.err.msg = "empty tag"
    /\ parser'.result = parser.result /\ parser'.stack = parser.stack

\* No tag with an empty name has been accepted.
NoEmptyNames ==
  \A i \in 1..Len(parser.lines) : \A j \in 1..Len(parser.lines[i].tags) :
    parser.lines[i].tags[j].b \notin {"!", "="} => parser.lines[i].tags[j].key # <<>>

\* C15: a section, inverted section, partial, block, parent, closing or
\* unescaped interpolation tag whose name is empty (the sigil followed by
\* nothing or by whitespace only), and an interpolation tag with empty
\* content, makes parse fail with the empty tag error; no such tag is
\* accepted into the tree.
C15_EmptyNameFails == []NoEmptyNames /\ [][EmptyNameStep]_vars

(***************************************************************************)
(* Line breaks inside tags                                                 *)
(***************************************************************************)

\* The tag the parser is at is a comment.
CommentAt == HasPrefix(AfterOpen, <<"!">>)

\* The tag the parser is at has a close delimiter after it.
TerminatedAt == Index(AfterOpen, parser.endDelim) >= 0

\* What the look-ahead for the end of the tag the parser is at returns, when
\* the tag is a parent or a parameter tag with a name.
PairTagAt ==
  /\ parser.pc \in {"tag", "error"} /\ parser.tagStart >= 0 /\ parser.tagStart < Len(parser.s)
  /\ HasPrefix(From(parser.s, parser.tagStart), parser.startDelim)
  /\ TagAt.err = "" /\ TagAt.key # <<>> /\ nextIndexSpace(TagAt.key, 0) < 0
  /\ \/ TagAt.b = "<"
     \/ TagAt.b = "$" /\ TopScope.start.tt # "parent"

LookaheadAt ==
  elementEnd(TagAt.key, parser.s, TagAt.tagEnd, parser.startDelim, parser.endDelim)

\* The look-ahead of the tag the parser is at meets a tag that is not closed
\* on its line, or not closed at all.
LookaheadBroken ==
  PairTagAt /\ LookaheadAt.cut \in {"unclosed tag", "unclosed comment"}

\* The tag the parser is at: a tag that is no comment and has a line break or
\* the end of the input before its close delimiter is the error unclosed tag;
\* a comment with no close delimiter is the error unclosed comment; a comment
\* with one is accepted and the line counter goes up by its line breaks.
BrokenTagStep ==
  /\ parser.pc = "tag" /\ ~CommentAt /\ ~(TerminatedAt /\ ClosedOnLine) =>
       parser'.pc = "error" /\ parser'.err.msg = "unclosed tag"
  /\ parser.pc = "tag" /\ CommentAt /\ ~TerminatedAt =>
       parser'.pc = "error" /\ parser'.err.msg = "unclosed comment"
  /\ parser.pc = "tag" /\ CommentAt /\ TerminatedAt =>
       /\ parser'.pc \notin {"error", "panic"}
       /\ parser'.lineno = parser.lineno + CountNL(ContentAt)
       /\ Len(parser'.stack) = Len(parser.stack)
  /\ parser.pc = "tag" /\ ~CommentAt /\ parser'.pc # "error" => parser'.lineno = parser.lineno

\* C16: only a comment may have a line break before its close delimiter: any
\* other tag with a line break or the end of the input before the close
\* delimiter makes parse fail with unclosed tag, a comment that is not
\* terminated with unclosed comment, wherever parse meets the tag; a
\* terminated comment of several lines is accepted and moves the line counter
\* by its line breaks.
C16_UnclosedTagAlways ==
  [][/\ BrokenTagStep
     /\ parser.pc = "tag" /\ LookaheadBroken =>
          parser'.pc = "error" /\ parser'.err.msg = LookaheadAt.cut]_vars

\* C16 amended: as C16, for the tag the main loop of parse is at; a tag not
\* closed that the look-ahead for the end of a parent or parameter tag meets
\* first makes parse fail with unclosed and the name of that parent or
\* parameter tag.
C16_UnclosedTagOrPair ==
  [][/\ BrokenTagStep
     /\ parser.pc = "tag" /\ LookaheadBroken =>
          /\ parser'.pc = "error" /\ parser'.err.msg = "unclosed"
          /\ parser'.err.key = TagAt.key /\ parser'.err.line = parser.lineno]_vars

\* parse has failed at a parameter tag whose look-ahead met a tag of two
\* lines that is no comment.
C16_Witness ==
  /\ parser.pc = "error" /\ parser.err.msg = "unclosed" /\ parser.err.key = <<"a">>
  /\ LookaheadBroken /\ LookaheadAt.cut = "unclosed tag"

(***************************************************************************)
(* The delimiters in force                                                 *)
(***************************************************************************)

\* d is a text with a character in it and no whitespace.
IsDelimiter(d) == d # <<>> /\ \A i \in 1..Len(d) : ~IsSpaceChar(d[i])

\* C27: at every point of parse, after any sequence of set delimiter tags,
\* both delimiters in force are non-empty and hold no whitespace character;
\* so the open delimiter of the tag parse is at lies within the line.
C27_DelimitersClean ==
  /\ IsDelimiter(parser.startDelim) /\ IsDelimiter(parser.endDelim)
  /\ \A i \in 1..Len(parser.lines) :
       IsDelimiter(parser.lines[i].startDelim) /\ IsDelimiter(parser.lines[i].endDelim)
  /\ parser.pc = "tag" =>
       /\ parser.tagStart + Len(parser.startDelim) <= parser.eol
       /\ "\n" \notin {parser.s[i] : i \in (parser.tagStart + 1)..(parser.tagStart + Len(parser.startDelim))}

\* parse is at a tag after two set delimiter tags, the second of which has
\* brought the default delimiters back.
C27_Witness ==
  /\ parser.pc = "tag" /\ parser.src = RestoreDelimiterExample
  /\ parser.startDelim = defaultStartDelim /\ parser.endDelim = defaultEndDelim
  /\ Len(parser.lines) = 1 /\ Len(parser.lines[1].tags) = 3
  /\ parser.lines[1].tags[3].b = "="

(***************************************************************************)
(* The indentation of blocks taken off a line                              *)
(***************************************************************************)

\* The indents recorded on the open block scopes from index i of the stack,
\* outermost first.
RECURSIVE BlockIndentsFrom(_)
BlockIndentsFrom(i) ==
  IF i > Len(parser.stack) THEN <<>>
  ELSE IF parser.stack[i].start.tt = "block"
  THEN <<parser.stack[i].start.indent>> \o BlockIndentsFrom(i + 1)
  ELSE BlockIndentsFrom(i + 1)

BlockIndents == BlockIndentsFrom(1)

\* s with each of the indents taken off its front in turn, an indent that s
\* does not begin with leaving s as it is.
RECURSIVE StripEach(_, _)
StripEach(indents, s) ==
  IF indents = <<>> THEN s
  ELSE IF HasPrefix(s, Head(indents))
  THEN StripEach(Tail(indents), From(s, Len(Head(indents))))
  ELSE StripEach(Tail(indents), s)

\* s with the indents taken off its front in turn up to the first one that s
\* does not begin with.
RECURSIVE StripWhile(_, _)
StripWhile(indents, s) ==
  IF indents = <<>> THEN s
  ELSE IF HasPrefix(s, Head(indents))
  THEN StripWhile(Tail(indents), From(s, Len(Head(indents))))
  ELSE s

\* parse is about to scan a line.
AtLine == parser.pc = "line" /\ Len(parser.s) > 0

\* C24: before a line is scanned, the indent of every enclosing open block
\* is taken off the front of the line whenever what is left of the line
\* begins with that indent, and a block whose indent the line does not begin
\* with leaves the line as it is.
C24_EveryBlockIndentStripped ==
  [][AtLine => parser'.s = StripEach(BlockIndents, parser.s)]_vars

\* C24 amended: the indents of the enclosing open blocks are taken off the
\* front of the line outermost first, as long as what is left of the line
\* begins with the next one; from the first block whose indent the line does
\* not begin with on, nothing more is taken off.
C24_BlockIndentsStrippedInTurn ==
  [][AtLine => /\ parser'.s = StripWhile(BlockIndents, parser.s)
               /\ parser'.lines[Len(parser'.lines)].cut \o parser'.s = parser.s]_vars

\* Two blocks are open, the outer with an indent of two spaces and the inner
\* with one of one space; of a line that began with three spaces both were
\* taken off, and the line of one space parse is on has lost nothing.
C24_Witness ==
  /\ parser.pc = "eol" /\ parser.src = NestedDedentExample
  /\ BlockIndents = << <<" ", " ">>, <<" ">> >>
  /\ Len(parser.lines) = 4
  /\ parser.lines[3].cut = <<" ", " ", " ">>
  /\ parser.lines[4].cut = <<>> /\ HasPrefix(parser.s, <<" ", "y">>)

(***************************************************************************)
(* The indent recorded on a tag                                            *)
(***************************************************************************)

\* The tag types with an indent.
IndentTags == {"partial", "block", "parent"}

\* The text between the tag parse is at and the tag before it, and the text
\* after it on its line.
LeadAt == Slice(parser.s, parser.prevEnd, parser.tagStart)

RestAt == Slice(parser.s, TagAt.tagEnd, parser.eol)

\* The spaces and tabs s begins with.
RECURSIVE LeadingBlank(_)
LeadingBlank(s) ==
  IF s # <<>> /\ Head(s) \in {" ", "\t"} THEN <<Head(s)>> \o LeadingBlank(Tail(s)) ELSE <<>>

\* The leading whitespace of the line after the one parse is on, the indents
\* of the open blocks taken off.
NextLineIndentAt == LeadingBlank(StripWhile(BlockIndents, From(parser.s, parser.eol)))

\* The tag parse is at is a parent tag or a parameter: a block tag that is not
\* right inside a parent.
IsPairAt == TagAt.b = "<" \/ (TagAt.b = "$" /\ TopScope.start.tt # "parent")

\* What has to be blank after a standalone tag: the rest of its line, and for
\* a parent tag and a parameter the rest of the line of its end tag.
TrailAt ==
  IF IsPairAt
  THEN Slice(parser.s, LookaheadAt.i, LookaheadAt.i + indexNextLine(From(parser.s, LookaheadAt.i)))
  ELSE RestAt

StandaloneAt ==
  /\ parser.prevEnd = 0 /\ TagAt.b \notin {"", "&"}
  /\ isSpace(LeadAt) /\ isSpace(TrailAt)

\* The tags the step has added to the tree.
NewTags ==
  SubSeq(parser'.lines[Len(parser.lines)].added,
         Len(parser.lines[Len(parser.lines)].added) + 1,
         Len(parser'.lines[Len(parser.lines)].added))

\* parse has taken the partial, block or parent tag it was at into the tree.
IndentTagStep ==
  /\ parser.pc = "tag" /\ parser'.pc \notin {"error", "panic"}
  /\ TagAt.b \in {">", "$", "<"}

\* The tag taken into the tree has the indent, and no other new tag has one;
\* absorbed says that parse goes on with the next line.
RecordsIndent(indent, absorbed) ==
  /\ \E i \in 1..Len(NewTags) : NewTags[i].tt \in IndentTags /\ NewTags[i].indent = indent
  /\ \A i \in 1..Len(NewTags) : NewTags[i].tt \notin IndentTags => NewTags[i].indent = <<>>
  /\ absorbed => parser'.pc = "eol" /\ parser'.prevEnd = parser.eol

\* C22: a parent tag and a block tag that is standalone with nothing but
\* whitespace after it on its line records the leading whitespace of the
\* following line, after dedent, and the line break after the tag is
\* absorbed; every other standalone tag records the leading whitespace of its
\* own line; a tag that is not standalone records an empty indent.
C22_IndentOfParentAndBlock ==
  [][IndentTagStep =>
       IF TagAt.b \in {"<", "$"} /\ StandaloneAt /\ isSpace(RestAt)
       THEN RecordsIndent(NextLineIndentAt, TRUE)
       ELSE IF StandaloneAt THEN RecordsIndent(LeadAt, FALSE)
       ELSE RecordsIndent(<<>>, FALSE)]_vars

\* C22 amended: a block tag right inside a parent, standalone or not, and a
\* standalone block tag anywhere else, with nothing but whitespace after it on
\* its line, records the leading whitespace of the following line, after
\* dedent, and the line break after the tag is absorbed; every other
\* standalone partial, block or parent tag records the leading whitespace of
\* its own line; every other tag records an empty indent.
C22_IndentOfArgumentAndParameter ==
  [][/\ IndentTagStep =>
          IF TagAt.b = "$" /\ (TopScope.start.tt = "parent" \/ StandaloneAt) /\ isSpace(RestAt)
          THEN RecordsIndent(NextLineIndentAt, TRUE)
          ELSE IF StandaloneAt THEN RecordsIndent(LeadAt, FALSE)
          ELSE RecordsIndent(<<>>, FALSE)
     /\ parser.pc = "tag" /\ parser'.pc \notin {"error", "panic"} /\ ~IndentTagStep =>
          \A i \in 1..Len(NewTags) : NewTags[i].indent = <<>>]_vars

\* A block tag right inside a parent and not standalone, the rest of its line
\* blank, is in the tree with the two spaces of the following line.
C22_Witness ==
  /\ parser.pc = "eol" /\ parser.src = ArgumentIndentExample
  /\ Len(parser.lines) = 1 /\ Len(parser.lines[1].tags) = 2
  /\ ~parser.lines[1].tags[2].standalone
  /\ TopScope.start.tt = "block" /\ TopScope.start.indent = <<" ", " ">>

(***************************************************************************)
(* Indent points                                                           *)
(***************************************************************************)

IndentPoint == Tag("indentPoint", <<>>, <<>>)

\* The literal of the text s, if there is any text.
LiteralOf(s) == IF s = <<>> THEN <<>> ELSE <<Tag("literal", s, <<>>)>>

\* parse has gone past the first tag of a line, which is not standalone.
FirstTagStep ==
  /\ parser.pc = "tag" /\ parser.prevEnd = 0
  /\ parser'.pc \notin {"error", "panic"}
  /\ ~StandaloneAt

\* The tag parse is at is the closing tag of a block right inside a parent.
ClosesArgumentAt ==
  /\ TagAt.b = "/" /\ TopScope.start.tt = "block"
  /\ parser.stack[Len(parser.stack) - 1].start.tt = "parent"

\* The step adds, first of all, the text before the tag, after an indent
\* point if pointed says so; without one it adds no indent point at all.
AddsLead(pointed) ==
  LET lead == (IF pointed THEN <<IndentPoint>> ELSE <<>>) \o LiteralOf(LeadAt)
  IN /\ Len(NewTags) >= Len(lead) /\ SubSeq(NewTags, 1, Len(lead)) = lead
     /\ ~pointed => \A i \in 1..Len(NewTags) : NewTags[i].tt # "indentPoint"

\* A line without a tag adds an indent point and then its text.
PlainLineStep ==
  parser.pc = "eol" /\ parser.lines[Len(parser.lines)].tags = <<>> /\ parser'.pc = "line" =>
    parser'.lines[Len(parser.lines)].added
      = <<IndentPoint, Tag("literal", Slice(parser.s, 0, parser.eol), <<>>)>>

\* C23: for every tag that is not standalone and is the first on its line
\* parse inserts one indent point right before the literal of the text before
\* the tag, unless the tag closes a block right inside a parent, when it
\* inserts none; a line without a tag gets one indent point before its
\* literal.
C23_IndentPointUnlessArgumentClose ==
  [][/\ FirstTagStep => AddsLead(~ClosesArgumentAt)
     /\ PlainLineStep]_vars

\* C23 amended: the tag that gets no indent point is the closing tag of a
\* block right inside a parent that stands at the very start of its line,
\* the indents of the open blocks taken off; such a closing tag with text
\* before it on the line gets the indent point like any other tag.
C23_IndentPointUnlessArgumentCloseAtStart ==
  [][/\ FirstTagStep => AddsLead(~(ClosesArgumentAt /\ parser.tagStart = 0))
     /\ PlainLineStep]_vars

\* The closing tag of a block right inside a parent, with text before it on
\* its line, has got an indent point before the literal of that text.
C23_Witness ==
  /\ parser.src = ArgumentInlineCloseExample /\ Len(parser.lines) = 2
  /\ Len(parser.lines[2].tags) >= 1 /\ parser.lines[2].tags[1].b = "/"
  /\ parser.lines[2].tags[1].key = <<"b">>
  /\ SubSeq(parser.lines[2].added, 1, 2) = <<IndentPoint, Tag("literal", <<"x">>, <<>>)>>

(***************************************************************************)
(* The text of the source in the literals of the tree                      *)
(***************************************************************************)

\* The texts of the literals of the tags, in a pre-order walk, joined.
RECURSIVE LiteralsOf(_)
LiteralsOf(tags) ==
  IF tags = <<>> THEN <<>>
  ELSE (IF Head(tags).tt = "literal" THEN Head(tags).s ELSE LiteralsOf(Head(tags).body))
       \o LiteralsOf(Tail(tags))

\* s without its whitespace.
RECURSIVE NonSpaceOf(_)
NonSpaceOf(s) ==
  IF s = <<>> THEN <<>>
  ELSE (IF IsSpaceChar(Head(s)) THEN <<>> ELSE <<Head(s)>>) \o NonSpaceOf(Tail(s))

\* a is b with some of its whitespace characters left out, and nothing else.
RECURSIVE DropsOnlySpace(_, _)
DropsOnlySpace(a, b) ==
  IF b = <<>> THEN a = <<>>
  ELSE IF a # <<>> /\ Head(a) = Head(b) THEN DropsOnlySpace(Tail(a), Tail(b))
  ELSE IsSpaceChar(Head(b)) /\ DropsOnlySpace(a, Tail(b))

\* The text of the line l of the history that is in none of its tags.
OutsideOf(l) ==
  IF l.tags = <<>> THEN l.text
  ELSE Concat([k \in 1..Len(l.tags) |-> LeadOf(l, k)])
       \o Slice(l.text, l.tags[Len(l.tags)].tagEnd, Len(l.text))

\* The text of the source outside the tags, and the source as the lines of
\* the history cover it.
SourceOutside ==
  Concat([i \in 1..Len(parser.lines) |-> parser.lines[i].cut \o OutsideOf(parser.lines[i])])

SourceCovered ==
  Concat([i \in 1..Len(parser.lines) |-> parser.lines[i].cut \o parser.lines[i].text])

\* C28: when parse succeeds, the literals of the tree, in a pre-order walk,
\* are the source outside the tags with nothing but whitespace left out:
\* every character outside a tag that is no whitespace is in one literal,
\* in the order of the source; a source with no open delimiter is the
\* literals joined.
C28_LiteralsKeepText ==
  parser.pc = "done" =>
    /\ SourceCovered = parser.src
    /\ DropsOnlySpace(LiteralsOf(parser.result), SourceOutside)
    /\ NonSpaceOf(LiteralsOf(parser.result)) = NonSpaceOf(SourceOutside)
    /\ Index(parser.src, defaultStartDelim) < 0 => LiteralsOf(parser.result) = parser.src

\* A source is parsed whose literals hold text, with whitespace of the
\* source left out of them, around a tag inside a scope.
C28_Witness ==
  /\ parser.pc = "done"
  /\ NonSpaceOf(LiteralsOf(parser.result)) # <<>>
  /\ Len(LiteralsOf(parser.result)) < Len(SourceOutside)
  /\ \E i \in 1..Len(parser.result) :
       parser.result[i].tt = "block" /\ LiteralsOf(parser.result[i].body) # <<>>

(***************************************************************************)
(* The body of a parent tag                                                *)
(***************************************************************************)

\* The block tags among tags, in order.
RECURSIVE DirectBlocks(_)
DirectBlocks(tags) ==
  IF tags = <<>> THEN <<>>
  ELSE (IF Head(tags).tt = "block" THEN <<Head(tags)>> ELSE <<>>) \o DirectBlocks(Tail(tags))

\* The bodies of the tags, joined.
RECURSIVE BodiesOf(_)
BodiesOf(tags) == IF tags = <<>> THEN <<>> ELSE Head(tags).body \o BodiesOf(Tail(tags))

\* Every parent tag of the tree, in a pre-order walk.
RECURSIVE ParentsIn(_)
ParentsIn(tags) ==
  IF tags = <<>> THEN <<>>
  ELSE (IF Head(tags).tt = "parent" THEN <<Head(tags)>> ELSE <<>>)
       \o ParentsIn(Head(tags).body) \o ParentsIn(Tail(tags))

\* The parent tags of the tree that code is generated for, in a pre-order
\* walk: of the body of a parent tag only the bodies of its blocks are read.
RECURSIVE CompiledParents(_)
CompiledParents(tags) ==
  IF tags = <<>> THEN <<>>
  ELSE (IF Head(tags).tt = "parent"
        THEN <<Head(tags)>> \o CompiledParents(BodiesOf(DirectBlocks(Head(tags).body)))
        ELSE CompiledParents(Head(tags).body))
       \o CompiledParents(Tail(tags))

\* The parent statements of the code, in a pre-order walk.
RECURSIVE ParentInstrs(_)
ParentInstrs(code) ==
  IF code = <<>> THEN <<>>
  ELSE (IF Head(code).op = "parent"
        THEN <<Head(code)>>
             \o ParentInstrs(Concat([i \in 1..Len(Head(code).entries) |-> Head(code).entries[i].body]))
        ELSE IF Head(code).op \in {"for", "ifFalsy", "block"} THEN ParentInstrs(Head(code).body)
        ELSE <<>>)
       \o ParentInstrs(Tail(code))

NamesOfTags(tags) == [i \in 1..Len(tags) |-> tags[i].s]

NamesOfEntries(entries) == [i \in 1..Len(entries) |-> entries[i].name]

\* The code has a parent statement for each parent tag of the tree it is
\* generated for, with an entry for each block right inside the tag, in
\* order, and no other entry.
TableFromBlocks(tags, code) ==
  /\ Len(ParentInstrs(code)) = Len(CompiledParents(tags))
  /\ \A i \in 1..Len(CompiledParents(tags)) :
       /\ NamesOfEntries(ParentInstrs(code)[i].entries)
            = NamesOfTags(DirectBlocks(CompiledParents(tags)[i].body))
       /\ ParentInstrs(code)[i].fn = IdentifierOf(CompiledParents(tags)[i].s)

\* The trees of a compilation: the template's and the partials'.
CompiledTrees == <<compiler.parsed.result>> \o compiler.output.partials

TablesFromBlocks ==
  Compiled =>
    /\ TableFromBlocks(compiler.parsed.result, compiler.output.main)
    /\ \A i \in 1..Len(compiler.output.partials) :
         TableFromBlocks(compiler.output.partials[i], compiler.output.units[i].code)

\* The names of the blocks of a table.
BlockNames(blocks) == {blocks[i].name : i \in 1..Len(blocks)}

\* A parent statement writes nothing itself, and calls the parent's function
\* with a table of its entries and, in a partial, of the blocks handed down.
ParentCallStep ==
  Runs({"parent"}) /\ machine'.pc = "run" =>
    /\ machine'.out = machine.out
    /\ BlockNames(CurCall(machine').blocks)
         = {CurInstr(machine).entries[i].name : i \in 1..Len(CurInstr(machine).entries)}
           \cup (IF CurInstr(machine).merge THEN BlockNames(CurCall(machine).blocks) ELSE {})

\* With {{$id}}123{{/id}} for base, the example renders the block it gives
\* and nothing else of what is between {{<base}} and {{/base}}.
ParentBodyRenders ==
  Rendered /\ compiler.source = ParentBodyExample
  /\ Load(compiler.load, NameBase).text = DefaultExample
    => machine.out = <<"4", "5", "6">>

\* C21: in every tree parse returns all direct children of a parent tag are
\* block tags; the generated code builds the table of overrides from the
\* block tags right inside the parent tag and from nothing else, so nothing
\* else written between the parent tag and its end tag reaches the output.
C21_ParentHoldsOnlyBlocks ==
  /\ [](compiler.pc \in {"gather", "emit", "done"} /\ compiler.parsed.pc = "done" =>
          \A i \in 1..Len(ParentsIn(compiler.parsed.result)) :
            \A j \in 1..Len(ParentsIn(compiler.parsed.result)[i].body) :
              ParentsIn(compiler.parsed.result)[i].body[j].tt = "block")
  /\ [](TablesFromBlocks /\ ParentBodyRenders)
  /\ [][ParentCallStep]_vars

\* C21 amended: a tree parse returns keeps whatever is written right inside
\* a parent tag (text, interpolations, sections, partials) next to its block
\* tags; the generated code builds the table of overrides from the block
\* tags right inside the parent tag and from nothing else, so nothing else
\* written between the parent tag and its end tag reaches the output.
C21_TableFromDirectBlocks ==
  /\ [](TablesFromBlocks /\ ParentBodyRenders)
  /\ [][ParentCallStep]_vars

\* The example is rendered: its parent tag has a literal, a variable, a
\* section and a partial next to its block, and the output is the block.
C21_Witness ==
  /\ Rendered /\ compiler.source = ParentBodyExample
  /\ Load(compiler.load, NameBase).text = DefaultExample
  /\ {compiler.parsed.result[1].body[j].tt : j \in 1..Len(compiler.parsed.result[1].body)}
       = {"literal", "variable", "block", "section", "partial"}
  /\ machine.out = <<"4", "5", "6">>

(***************************************************************************)
(* The call of a partial                                                   *)
(***************************************************************************)

\* The partial tags of the tree that code is generated for, in a pre-order
\* walk.
RECURSIVE PartialSites(_, _)
PartialSites(tags, inParent) ==
  IF tags = <<>> THEN <<>>
  ELSE (IF inParent /\ Head(tags).tt # "block" THEN <<>>
        ELSE IF Head(tags).tt = "partial" THEN <<Head(tags)>>
        ELSE PartialSites(Head(tags).body, Head(tags).tt = "parent"))
       \o PartialSites(Tail(tags), inParent)

\* The call statements of the code, in the order of the text.
RECURSIVE CallInstrs(_)
CallInstrs(code) ==
  IF code = <<>> THEN <<>>
  ELSE (IF Head(code).op = "call" THEN <<Head(code)>>
        ELSE IF Head(code).op = "parent"
        THEN CallInstrs(Concat([i \in 1..Len(Head(code).entries) |-> Head(code).entries[i].body]))
        ELSE CallInstrs(Head(code).body))
       \o CallInstrs(Tail(code))

\* The code has a call for each partial tag, of the function of the tag's
\* name, with the indent the tag records in its indent argument.
CallsFromPartials(tags, code) ==
  /\ Len(CallInstrs(code)) = Len(PartialSites(tags, FALSE))
  /\ \A i \in 1..Len(CallInstrs(code)) :
       /\ CallInstrs(code)[i].fn = IdentifierOf(PartialSites(tags, FALSE)[i].s)
       /\ CallInstrs(code)[i].indent.lit = PartialSites(tags, FALSE)[i].indent

PartialCallsCompiled ==
  Compiled =>
    /\ CallsFromPartials(compiler.parsed.result, compiler.output.main)
    /\ \A i \in 1..Len(compiler.output.partials) :
         CallsFromPartials(compiler.output.partials[i], compiler.output.units[i].code)

\* The call of a partial's function: the caller's stack, the caller's indent
\* followed by the tag's (the template's function has no indent of its own),
\* no blocks; nothing is written by the call itself.
PartialCallStep ==
  Runs({"call"}) /\ machine'.pc = "run" =>
    /\ Len(machine'.calls) = Len(machine.calls) + 1
    /\ CurCall(machine').unit = CurInstr(machine).fn
    /\ CurCall(machine').stack = CurCall(machine).stack
    /\ CurCall(machine').indent = CurCall(machine).indent \o CurInstr(machine).indent.lit
    /\ Len(machine.calls) = 1
         => CurCall(machine').indent = CurInstr(machine).indent.lit
    /\ CurCall(machine').blocks = <<>>
    /\ machine'.out = machine.out

\* A function keeps the blocks it was called with, and a block statement of a
\* function called without blocks runs the text of its block tag.
BlocksKeptStep ==
  /\ machine.pc = "run" /\ machine'.pc = "run" =>
       \A i \in 1..Min({Len(machine.calls), Len(machine'.calls)}) :
         machine'.calls[i].blocks = machine.calls[i].blocks
  /\ Runs({"block"}) /\ CurCall(machine).blocks = <<>> /\ machine'.pc = "run" =>
       /\ Len(machine'.calls) = Len(machine.calls)
       /\ CurCont(machine').code = CurInstr(machine).body

\* mid is "  {{>base}}\n{{$id}}m{{/id}}" and base {{$id}}123{{/id}}: the
\* override 456 of the template that inherits from mid is written for the
\* block of mid, not for the block of base.
PlainPartialRenders ==
  Rendered /\ compiler.source = NestedOverrideExample
  /\ Load(compiler.load, NameMid).text = PlainPartialExample
  /\ Load(compiler.load, NameBase).text = DefaultExample
    => machine.out = <<" ", " ", "1", "2", "3", "4", "5", "6">>

\* C25: the call generated for a partial tag passes the caller's context
\* stack as it is, the caller's running indent followed by the indent the
\* tag records (the tag's indent alone where there is no running indent),
\* and no block overrides: the overrides a parent tag gives a template are
\* not seen in a partial the template includes with a plain partial tag.
C25_PartialCall ==
  /\ [](PartialCallsCompiled /\ PlainPartialRenders)
  /\ [][PartialCallStep /\ BlocksKeptStep]_vars

\* base has been called by the plain partial tag of mid, which runs with an
\* override of id: base runs with the stack of mid, the indent of the tag and
\* no blocks.
C25_Witness ==
  /\ machine.pc = "run" /\ Len(machine.calls) = 3
  /\ compiler.source = NestedOverrideExample
  /\ Load(compiler.load, NameMid).text = PlainPartialExample
  /\ HasBlock(machine.calls[2].blocks, <<"i", "d">>)
  /\ machine.calls[3].blocks = <<>>
  /\ machine.calls[3].indent = <<" ", " ">>
  /\ machine.calls[3].stack = machine.calls[2].stack
  /\ machine.calls[3].unit = IdentifierOf(NameBase)

(***************************************************************************)
(* The context stack of the generated code                                 *)
(***************************************************************************)

\* The elements the for statements a function is inside of are at, outermost
\* first.
RECURSIVE LoopElems(_)
LoopElems(conts) ==
  IF conts = <<>> THEN <<>>
  ELSE (IF Head(conts).loop THEN <<Head(conts).elem>> ELSE <<>>) \o LoopElems(Tail(conts))

\* The stack the i-th function of the call stack was called with: the data
\* for the template's function, the stack of the caller for any other.
EntryStack(i) == IF i = 1 THEN <<compiler.data>> ELSE machine.calls[i - 1].stack

\* The stack of every function that runs is the stack it was called with and,
\* on top, one frame for each section it is inside of: the element the
\* iteration is at.
StackBalanced ==
  machine.pc = "run" =>
    \A i \in 1..Len(machine.calls) :
      /\ machine.calls[i].stack = EntryStack(i) \o LoopElems(machine.calls[i].conts)
      /\ machine.calls[i].stack # <<>>
      /\ machine.calls[i].stack[1] = compiler.data

\* What a statement does to the stack: a for pushes the first element if
\* there is one, the end of its body replaces the element by the next or
\* pops it, a call hands the stack on, and nothing else touches it.
StackStep ==
  machine.pc = "run" /\ machine'.pc = "run" =>
    /\ Runs({"for"}) =>
         LET elems == ForEach(Lookup(CurCall(machine).stack, CurInstr(machine).s))
         IN CurCall(machine').stack
              = IF elems = <<>> THEN CurCall(machine).stack
                ELSE Append(CurCall(machine).stack, elems[1])
    /\ Runs({"end"}) /\ CurCont(machine).loop =>
         CurCall(machine').stack
           = SubSeq(CurCall(machine).stack, 1, Len(CurCall(machine).stack) - 1)
             \o (IF CurCont(machine).iter = <<>> THEN <<>> ELSE <<CurCont(machine).iter[1]>>)
    /\ Runs({"end"}) /\ ~CurCont(machine).loop /\ Len(CurCall(machine).conts) > 1 =>
         CurCall(machine').stack = CurCall(machine).stack
    /\ Runs({"ifFalsy", "block", "call", "parent"}) =>
         /\ CurCall(machine').stack = CurCall(machine).stack
         /\ machine'.calls[Len(machine.calls)].stack = CurCall(machine).stack
    /\ Runs({"literal", "indent", "escaped", "raw"}) =>
         CurCall(machine').stack = CurCall(machine).stack
    /\ \A i \in 1..(Min({Len(machine.calls), Len(machine'.calls)}) - 1) :
         machine'.calls[i].stack = machine.calls[i].stack

\* The call of the template's function starts with the root data alone.
StackStart ==
  machine.pc = "idle" /\ machine'.pc = "run" =>
    Len(machine'.calls) = 1 /\ machine'.calls[1].stack = <<compiler.data>>

\* C29: the context stack of the generated code is never empty and is
\* balanced: it starts as the root data alone, each iteration of a section
\* pushes one frame before the body and pops it after, an inverted section,
\* a block, a partial and a parent push nothing, so after the code of a tag
\* has run the stack has the frames it had before.
C29_StackBalanced ==
  /\ []StackBalanced
  /\ [][StackStep /\ StackStart]_vars

\* Inside two sections, the inner one over a list: the stack is the root
\* data, the element of the outer and the element of the inner section.
C29_Witness ==
  /\ machine.pc = "run" /\ Len(machine.calls) = 1
  /\ compiler.source = NestedSectionExample
  /\ Len(CurCall(machine).stack) = 3
  /\ CurCont(machine).loop /\ CurCont(machine).iter # <<>>
  /\ \E k \in 1..Len(machine.log) :
       machine.log[k].op = "for" /\ machine.log[k].done /\ Len(machine.log[k].runs) >= 1

(***************************************************************************)
(* Every partial referred to has a function                                *)
(***************************************************************************)

\* The names the partial and parent tags of the tree refer to.
ReferredNames(tags) ==
  {walkTags(tags)[k].s : k \in {j \in 1..Len(walkTags(tags)) :
                                  walkTags(tags)[j].tt \in {"partial", "parent"}}}

\* The name has an identifier in the table, which is that of one of the first
\* count partials.
HasUnit(partialFuncNames, templateName, name, count) ==
  /\ NameOf(partialFuncNames, name) # <<>>
  /\ \E i \in 0..(count - 1) : NameOf(partialFuncNames, name) = FuncName(templateName, i)

\* gatherPartials has returned without error: every name the template or one
\* of the partials gathered refers to has the identifier of a partial gathered.
AllReferredGathered ==
  compiler.pc = "emit" /\ compiler.g.err = "" =>
    /\ \A name \in ReferredNames(compiler.parsed.result) :
         HasUnit(compiler.g.partialFuncNames, compiler.templateName, name, Len(compiler.g.partials))
    /\ \A i \in 1..Len(compiler.g.partials) : \A name \in ReferredNames(compiler.g.partials[i]) :
         HasUnit(compiler.g.partialFuncNames, compiler.templateName, name, Len(compiler.g.partials))

\* The functions the statements call are among the functions of units.
CallsEmitted(code, units) ==
  \A k \in 1..Len(CallsOf(code)) :
    /\ CallsOf(code)[k] # <<>>
    /\ \E u \in 1..Len(units) : units[u].name = CallsOf(code)[k]

\* compileGo has returned the code: there is a function for each partial
\* gathered, in order, every name referred to has the identifier of one of
\* them, and every function called is one of them.
AllReferredEmitted ==
  Compiled =>
    /\ Len(compiler.output.units) = Len(compiler.output.partials)
    /\ \A u \in 1..Len(compiler.output.units) :
         compiler.output.units[u].name = FuncName(compiler.templateName, u - 1)
    /\ \A name \in ReferredNames(compiler.parsed.result) :
         HasUnit(compiler.output.partialFuncNames, compiler.templateName, name,
                 Len(compiler.output.units))
    /\ \A i \in 1..Len(compiler.output.partials) :
         \A name \in ReferredNames(compiler.output.partials[i]) :
           HasUnit(compiler.output.partialFuncNames, compiler.templateName, name,
                   Len(compiler.output.units))
    /\ CallsEmitted(compiler.output.main, compiler.output.units)
    /\ \A u \in 1..Len(compiler.output.units) :
         CallsEmitted(compiler.output.units[u].code, compiler.output.units)

\* C30: once the partials are gathered without error, every partial tag and
\* parent tag of the template's tree and of the tree of every partial
\* gathered has a non-empty identifier in the table of names, with an index
\* below the number of functions emitted for partials: the generated code
\* calls no function that is not emitted.
C30_EveryReferenceEmitted == AllReferredGathered /\ AllReferredEmitted

\* A template is compiled whose partials refer to partials the template does
\* not name, one of them to itself: two functions, the second of which
\* calls itself.
C30_Witness ==
  /\ Compiled
  /\ Len(compiler.output.units) = 2
  /\ ReferredNames(compiler.parsed.result) = {NameP}
  /\ \E i \in 1..2 : NameR \in ReferredNames(compiler.output.partials[i])
  /\ \E i \in 1..2 :
       compiler.output.units[i].name \in
         {CallsOf(compiler.output.units[i].code)[k] :
            k \in 1..Len(CallsOf(compiler.output.units[i].code))}

(***************************************************************************)
(* gatherPartials returns                                                  *)
(***************************************************************************)

NoDuplicates(seq) == \A i, j \in 1..Len(seq) : seq[i] = seq[j] => i = j

\* While gatherPartials runs: no partial is loaded twice, every partial
\* parsed has its identifier, and there are no more calls of gatherPartials
\* that have not returned than names with an identifier, and the first call.
GatheredOnce ==
  compiler.pc = "gathering" =>
    /\ NoDuplicates(compiler.g.loaded)
    /\ compiler.g.err = "" =>
         \A k \in 1..Len(compiler.g.parses) :
           HasName(compiler.g.partialFuncNames, compiler.g.parses[k])
    /\ NoDuplicates([k \in 1..Len(compiler.g.partialFuncNames) |->
                       compiler.g.partialFuncNames[k].name])
    /\ Len(compiler.g.walks) <= Len(compiler.g.partialFuncNames) + 1
    /\ Len(compiler.g.walks) \in 1..MaxDepth

\* What gatherPartials returns to compileGo, one tag at a time, is what it is
\* as a function of the tree and the loader.
GatheredAll ==
  compiler.pc = "emit" =>
    compiler.g = gatherPartials(InitGather(compiler.templateName), compiler.parsed.result,
                                compiler.load)

\* gatherPartials is called on the tags of a partial only at a tag whose name
\* had no identifier, and the name has one when the call starts.
GatherCallStep ==
  compiler.pc = "gathering" /\ compiler'.pc = "gathering"
  /\ Len(compiler'.g.walks) > Len(compiler.g.walks) =>
    LET t == Head(compiler.g.walks[Len(compiler.g.walks)])
    IN /\ t.tt \in {"partial", "parent"}
       /\ ~HasName(compiler.g.partialFuncNames, t.s)
       /\ HasName(compiler'.g.partialFuncNames, t.s)
       /\ compiler'.g.walks[Len(compiler'.g.walks)] = walkTags(TreeOf(compiler.load, t.s))
       /\ compiler'.g.loaded = Append(compiler.g.loaded, t.s)

\* The names of the loader that have no identifier.
Unnamed(g, load) == {n \in DOMAIN load : ~HasName(g.partialFuncNames, n)}

\* The tags of the longest partial of the loader.
LongestWalk(load) ==
  LET lens == {Len(walkTags(TreeOf(load, n))) : n \in DOMAIN load} \cup {0}
  IN CHOOSE x \in lens : \A y \in lens : y <= x

\* The tags the loops of the calls have not come to, and one for the return
\* of each call.
RECURSIVE Pending(_)
Pending(walks) == IF walks = <<>> THEN 0 ELSE Len(Head(walks)) + 1 + Pending(Tail(walks))

\* What is left to do: the tags pending, and for each name without an
\* identifier the tags of a partial and its return.
Remaining(g, load) ==
  Cardinality(Unnamed(g, load)) * (LongestWalk(load) + 1) + Pending(g.walks)

\* Every step of gatherPartials leaves less to do, and while a call of
\* gatherPartials has not returned there is a step to take.
GatherStepDecreases ==
  compiler.pc = "gathering" =>
    /\ compiler'.pc \in {"gathering", "emit"}
    /\ compiler'.pc = "gathering" =>
         Remaining(compiler'.g, compiler.load) < Remaining(compiler.g, compiler.load)
    /\ compiler'.pc = "emit" =>
         compiler.g.walks = <<<<>>>> \/ (compiler.g.err # "" /\ Len(compiler.g.walks) = 1)

\* C26: gatherPartials returns for every loader over finitely many names,
\* also when a partial refers to itself or partials refer to each other in a
\* cycle: a name gets its identifier before the tags of its partial are
\* gathered, so each name is loaded and gathered at most once.
C26_GatherReturns ==
  /\ [](GatheredOnce /\ GatheredAll)
  /\ [][GatherCallStep /\ GatherStepDecreases]_vars

\* gatherPartials has returned without error for a loader where q refers to
\* r and r to q, and both were loaded.
C26_Witness ==
  /\ compiler.pc = "emit" /\ compiler.g.err = ""
  /\ Load(compiler.load, NameQ).text = <<"{", "{", ">", "r", "}", "}", "y">>
  /\ Load(compiler.load, NameR).text = <<"{", "{", ">", "q", "}", "}">>
  /\ \E i, j \in 1..Len(compiler.g.loaded) :
       compiler.g.loaded[i] = NameQ /\ compiler.g.loaded[j] = NameR

====
